---------------------------- MODULE Spec2Model ----------------------------
(***************************************************************************)
(* A model of the wind version-control engine: the content-addressed       *)
(* object store, the path index and working copy, the changeset / merge    *)
(* engine of the unified repository, and the Git bridge (importer,         *)
(* exporter, mapping database).                                            *)
(*                                                                         *)
(* The subsystems are checked under separate specifications over one set   *)
(* of variables: SpecMerge (MergeEngine::merge on arbitrary manifests),    *)
(* SpecStore (FileSystemStore), SpecRepo (UnifiedRepository over a working *)
(* tree), SpecScan (WorkingCopy::scan_working_tree over every index and    *)
(* tree), SpecBridge (GitImporter / GitExporter over a mapping database),  *)
(* SpecImport (import_all over Git histories in which a file comes and     *)
(* goes), SpecExportOne (export_changeset called on its own), SpecConc     *)
(* (two writers of the store interleaved step by step), SpecTamper (the    *)
(* store with an object file replaced on disk), SpecImporters (two         *)
(* import_all calls on one bridge.db, interleaved statement by statement), *)
(* SpecGitMerge (import_all over Git histories with a merge commit),       *)
(* SpecTree (export of manifests with nested and dot-prefixed paths),      *)
(* SpecLife (init, open and checkout on one directory), SpecHandles (two   *)
(* handles committing at once), SpecChunk (Chunker::chunk_bytes), SpecPack *)
(* (PackFile::write step by step) and SpecCache (StatusCache).  A          *)
(* specification leaves the other subsystems' variables at their initial   *)
(* values.                                                                 *)
(***************************************************************************)
EXTENDS Integers, Sequences, FiniteSets, TLC

VARIABLES
    \* ---- MergeEngine::merge: the three manifests handed in, and what a call left
    mBase, mOurs, mTheirs,      \* the manifests of base / ours / theirs
    mCalled,                    \* whether merge has been called on them
    mChanges,                   \* merge's local merged_changes when it returned
    mResult,                    \* the MergeResult it returned
    \* ---- FileSystemStore on its own
    sObjects,                   \* base_path: object path -> file content
    sReturned,                  \* the (data, oid) of every write, oldest first
    sTyped,                     \* the (Object, oid) of every write_object, oldest first
    sLast,                      \* the last call and its result
    sProcs,                     \* the concurrent writers of the store: writer -> its call
    \* ---- UnifiedRepository: one repository directory and one handle on it
    rObjects,                   \* .wind/storage: object path -> file content
    rIndex,                     \* .wind/index.db: path -> IndexEntry
    rTree,                      \* the working tree: path -> file
    now,                        \* the clock, in seconds
    rRefs,                      \* .wind/refs/heads: branch id -> Branch
    rHeadFile,                  \* .wind/HEAD
    rOpen,                      \* whether the caller holds a handle
    rCurrent,                   \* the handle's current_branch
    rCommits,                   \* the OIDs commit has returned, oldest first
    rMoved,                     \* the last move of a tracked file to a new path
    rLast,                      \* the last call on the handle and its result
    \* ---- the Git bridge
    gitSrc,                     \* the .git of the repository directory
    gTargets,                   \* the Git repositories export_git has written: path -> repository
    bMap,                       \* bridge.db sha_oid_mapping: git_sha -> wind_oid
    bNodes,                     \* bridge.db node_path_mapping: node_id -> current_path
    xp,                         \* the export_git call in progress
    imps,                       \* the concurrent importers on bridge.db: importer -> its position
    \* ---- components on their own
    ck,                         \* the Chunker and what its last chunk_bytes call returned
    pk,                         \* the pack directory and the PackFile::write calls on it
    hd,                         \* the handles committing at once on the repository: handle -> its position
    sc,                         \* the StatusCache, the monotonic clock, and the calls made on the cache
    \* ---- shared
    uuids                       \* how many Uuid::new_v4() values have been drawn

mergeVars == <<mBase, mOurs, mTheirs, mCalled, mChanges, mResult>>
storeVars == <<sObjects, sReturned, sTyped, sLast, sProcs>>
repoVars == <<rObjects, rIndex, rTree, now, rRefs, rHeadFile, rOpen, rCurrent, rCommits, rMoved, rLast>>
bridgeVars == <<gitSrc, gTargets, bMap, bNodes, xp, imps>>
compVars == <<ck, pk, hd, sc>>
vars == <<mergeVars, storeVars, repoVars, bridgeVars, compVars, uuids>>

(***************************************************************************)
(* Universe.                                                               *)
(***************************************************************************)
\* Option<T>: None, or Some(x).
None == <<>>
Some(x) == <<x>>
Unwrap(opt) == opt[1]

\* Relative paths of the working tree, and their ascending (BTreeMap) order.
PathSeq == <<".gitignore", ".windignore", "a.txt", "b.txt", "c.txt", "d", "d/e.txt", "d/f.txt", "t.txt">>
Paths == {PathSeq[i] : i \in 1..Len(PathSeq)}

\* Bytes of a buffer, and the longest buffer considered.
Bytes == {0, 1}
MaxLen == 1
Buffers == UNION {[1..n -> Bytes] : n \in 0..MaxLen}

\* Contents a working-tree file takes: two of equal size, one longer.
FileContents == {<<0>>, <<1>>, <<0, 1>>}

\* A byte buffer as the store sees it (&[u8]): raw bytes, or the bytes
\* serde_json::to_vec produced for a Manifest or a Changeset.
RawBytes(b) == [bytes |-> b]

\* Oid::hash_bytes: BLAKE3 of the bytes, taken to be collision free.  The
\* digest is a value determined by, and determining, the bytes hashed.
hash_bytes(data) == [blake3 |-> data]

\* Oid::to_string: the 64-character hex rendering handed around as a String.
OidString(oid) == [hex |-> oid.blake3]

\* Oid::from_hex: the Oid a hex string names; None for a string that is not
\* 64 hex characters (such as the importer's "w<sha>").
from_hex(str) == IF "hex" \in DOMAIN str THEN Some([blake3 |-> str.hex]) ELSE None

\* Result<T>: Ok(x) or Err(e).
Ok(x) == [ok |-> x]
Err(e) == [err |-> e]
IsOk(r) == "ok" \in DOMAIN r

BlobOids == {OidString(hash_bytes(RawBytes(c))) : c \in FileContents}

\* Uuid::new_v4(): the k-th value drawn differs from every other one.
MaxUuid == 4
Uuid(k) == [uuid |-> k]

\* Permission bits of a regular file.
Perms == {420}

\* Smallest element of a non-empty set of integers.
SetMin(S) == CHOOSE x \in S : \A y \in S : x <= y

\* The first of a non-empty set of paths in ascending path order.
FirstPath(ps) == PathSeq[SetMin({i \in 1..Len(PathSeq) : PathSeq[i] \in ps})]

\* All orders in which a set can be iterated (a HashSet / HashMap iteration).
Orders(S) == {q \in [1..Cardinality(S) -> S] : \A i, j \in 1..Cardinality(S) : q[i] = q[j] => i = j}

(***************************************************************************)
(* Manifest model (wind-core/src/model.rs).                                *)
(***************************************************************************)
\* ManifestEntry {node_id, oid, permissions}.
ManifestEntry(n, o, perm) == [node_id |-> n, oid |-> o, permissions |-> perm]

\* Manifest::new(): no entries.  A manifest is a map path -> ManifestEntry.
EmptyManifest == [p \in {} |-> None]

\* Manifest::add: insert or replace the entry at path.
ManifestAdd(m, path, n, o, perm) == [p \in DOMAIN m \cup {path} |-> IF p = path THEN ManifestEntry(n, o, perm) ELSE m[p]]

\* FileChange::{Added, Modified, Deleted}.
Added(o) == [change |-> "Added", oid |-> o]
Modified(o) == [change |-> "Modified", oid |-> o]
Deleted == [change |-> "Deleted"]

\* BTreeMap::insert on a map kept as a function.
MapInsert(map, k, v) == [x \in DOMAIN map \cup {k} |-> IF x = k THEN v ELSE map[x]]

(***************************************************************************)
(* FileSystemStore (crates/wind-storage/src/object_store.rs).              *)
(***************************************************************************)
\* No call made yet.
NoResult == [result |-> "NotCalled"]

\* A directory with no files.  A directory is a map file path -> content.
NoFiles == [f \in {} |-> None]

\* zstd::encode_all / decode_all (level 3): a frame holding the data, and
\* the data of a frame; decoding anything that is not a frame fails.
zstd_encode(data) == [zstd |-> data]
zstd_decode(file) == IF "zstd" \in DOMAIN file THEN Ok(file.zstd) ELSE Err("zstd")

\* FileSystemStore::object_path: base_path/<hex[..2]>/<hex[2..]>.
object_path(oid) == [objects |-> oid.blake3]

\* fs::write(path, bytes): create or replace the file.
fs_write(dir, path, bytes) == [f \in DOMAIN dir \cup {path} |-> IF f = path THEN bytes ELSE dir[f]]

\* SyncObjectStore::exists
StoreExists(dir, oid_str) == IF from_hex(oid_str) # None THEN object_path(Unwrap(from_hex(oid_str))) \in DOMAIN dir ELSE FALSE

\* A write that does not ask exists() first and writes the file every time.
StoreWriteTo_NoShortCircuit(dir, data) ==
    [dir |-> fs_write(dir, object_path(hash_bytes(data)), zstd_encode(data)), oid |-> OidString(hash_bytes(data)), written |-> TRUE]

\* SyncObjectStore::write: the directory afterwards, the oid returned, and
\* whether the object's file was written.
StoreWriteTo(dir, data) ==
    LET oid == hash_bytes(data)
        oid_str == OidString(oid)
    IN  IF StoreExists(dir, oid_str) THEN [dir |-> dir, oid |-> oid_str, written |-> FALSE]
        ELSE [dir |-> fs_write(dir, object_path(oid), zstd_encode(data)), oid |-> oid_str, written |-> TRUE]

\* A read that hands back the file as stored, without decompressing it.
StoreReadFrom_NoDecode(dir, oid_str) ==
    IF from_hex(oid_str) = None THEN Err("Invalid hex length")
    ELSE IF object_path(Unwrap(from_hex(oid_str))) \notin DOMAIN dir THEN Err("NotFound")
    ELSE Ok(dir[object_path(Unwrap(from_hex(oid_str)))])

\* SyncObjectStore::read
StoreReadFrom(dir, oid_str) ==
    IF from_hex(oid_str) = None THEN Err("Invalid hex length")
    ELSE IF object_path(Unwrap(from_hex(oid_str))) \notin DOMAIN dir THEN Err("NotFound")
    ELSE zstd_decode(dir[object_path(Unwrap(from_hex(oid_str)))])

\* ObjectType, in declaration order (the variant index bincode writes).
ObjectTypes == <<"Blob", "Tree", "Commit">>
Object(ty, data) == [obj_type |-> ty, data |-> data]
Objects == {Object(ObjectTypes[i], b) : i \in 1..Len(ObjectTypes), b \in Buffers}

\* bincode::serialize(&Object): the variant index, the length of data, data.
bincode_serialize(obj) == RawBytes(<<CHOOSE i \in 1..Len(ObjectTypes) : ObjectTypes[i] = obj.obj_type, Len(obj.data)>> \o obj.data)

\* bincode::deserialize::<Object>: fails on an unknown variant or short input.
bincode_deserialize(data) ==
    IF "bytes" \notin DOMAIN data THEN Err("bincode")
    ELSE LET b == data.bytes
         IN  IF Len(b) < 2 THEN Err("bincode")
             ELSE IF b[1] \notin 1..Len(ObjectTypes) THEN Err("bincode")
             ELSE IF Len(b) < 2 + b[2] THEN Err("bincode")
             ELSE Ok(Object(ObjectTypes[b[1]], SubSeq(b, 3, 2 + b[2])))

\* ObjectStore::write_object: the directory afterwards, the Oid returned,
\* and whether the object's file was written.
WriteObjectTo(dir, obj) ==
    LET encoded == bincode_serialize(obj)
        oid == hash_bytes(encoded)
    IN  IF object_path(oid) \in DOMAIN dir THEN [dir |-> dir, oid |-> oid, written |-> FALSE]
        ELSE [dir |-> fs_write(dir, object_path(oid), zstd_encode(encoded)), oid |-> oid, written |-> TRUE]

\* ObjectStore::read_object
ReadObjectFrom(dir, oid) ==
    IF object_path(oid) \notin DOMAIN dir THEN Err("NotFound")
    ELSE IF ~IsOk(zstd_decode(dir[object_path(oid)])) THEN Err("zstd")
    ELSE bincode_deserialize(zstd_decode(dir[object_path(oid)]).ok)

\* How many writes one run of the store makes.
MaxWrites == 2

\* The threads that call the store concurrently; none is in a call.
Writers == {"w1", "w2"}
NoCalls == [w \in Writers |-> [pc |-> "idle"]]

\* Oids a caller holds and may ask the store for: those its writes returned.
KnownOids == {from_hex(sReturned[i].oid)[1] : i \in 1..Len(sReturned)} \cup {sTyped[i].oid : i \in 1..Len(sTyped)}

\* store.write(data)
StoreWrite(b) ==
    /\ Len(sReturned) + Len(sTyped) < MaxWrites
    /\ sObjects' = StoreWriteTo(sObjects, RawBytes(b)).dir
    /\ sReturned' = Append(sReturned, [data |-> RawBytes(b), oid |-> StoreWriteTo(sObjects, RawBytes(b)).oid, written |-> StoreWriteTo(sObjects, RawBytes(b)).written])
    /\ UNCHANGED <<sTyped, sLast, sProcs, mergeVars, repoVars, bridgeVars, uuids, compVars>>

\* store.write_object(obj)
StoreWriteObject(obj) ==
    /\ Len(sReturned) + Len(sTyped) < MaxWrites
    /\ sObjects' = WriteObjectTo(sObjects, obj).dir
    /\ sTyped' = Append(sTyped, [obj |-> obj, oid |-> WriteObjectTo(sObjects, obj).oid, written |-> WriteObjectTo(sObjects, obj).written])
    /\ UNCHANGED <<sReturned, sLast, sProcs, mergeVars, repoVars, bridgeVars, uuids, compVars>>

\* store.read(oid)
StoreRead(oid) ==
    /\ sLast' = [result |-> "read", oid |-> OidString(oid), value |-> StoreReadFrom(sObjects, OidString(oid)), writes |-> Len(sReturned) + Len(sTyped)]
    /\ UNCHANGED <<sObjects, sReturned, sTyped, sProcs, mergeVars, repoVars, bridgeVars, uuids, compVars>>

\* store.read_object(oid)
StoreReadObject(oid) ==
    /\ sLast' = [result |-> "read_object", oid |-> oid, value |-> ReadObjectFrom(sObjects, oid), writes |-> Len(sReturned) + Len(sTyped)]
    /\ UNCHANGED <<sObjects, sReturned, sTyped, sProcs, mergeVars, repoVars, bridgeVars, uuids, compVars>>

\* No repository directory, and no handle.
\* The importers that may run at once on one bridge.db, none of them
\* having been started.
Importers == {"i1", "i2"}
NoImports == [p \in Importers |-> [pc |-> "idle"]]

\* No chunk_bytes call has been made.
NoChunker == [called |-> FALSE]

\* An empty pack directory and the processes that may call PackFile::write.
PackWriters == {"k1", "k2"}
NoPacks == [dir |-> NoFiles, procs |-> [w \in PackWriters |-> [pc |-> "idle"]]]

\* The handles opened on one repository directory, none of them in a call.
Handles == {"h1", "h2"}
NoCommitting == [h \in Handles |-> [pc |-> "idle"]]

\* StatusCache::new(ttl_ms): an empty cache that is not dirty.  `clock` is
\* Instant::now(); `invalidated` and `set_since` record the calls made:
\* whether invalidate() was called, and the paths set was called for since.
StatusCacheNew(ttl) == [cache |-> NoFiles, ttl |-> ttl, dirty |-> FALSE, clock |-> 0, invalidated |-> FALSE, set_since |-> {}, last |-> NoResult]

CompIdle ==
    /\ ck = NoChunker
    /\ pk = NoPacks
    /\ hd = NoCommitting
    /\ sc = StatusCacheNew(2)

BridgeIdle ==
    /\ gitSrc = None
    /\ gTargets = NoFiles
    /\ bMap = NoFiles
    /\ bNodes = NoFiles
    /\ xp = [phase |-> "idle"]
    /\ imps = NoImports
    /\ CompIdle

RepoIdle ==
    /\ BridgeIdle
    /\ rOpen = FALSE
    /\ rObjects = NoFiles
    /\ rIndex = NoFiles
    /\ rTree = NoFiles
    /\ now = 0
    /\ rRefs = NoFiles
    /\ rHeadFile = None
    /\ rCurrent = None
    /\ rCommits = <<>>
    /\ rMoved = None
    /\ rLast = NoResult

StoreIdle ==
    /\ sObjects = NoFiles
    /\ sReturned = <<>>
    /\ sTyped = <<>>
    /\ sLast = NoResult
    /\ sProcs = NoCalls

MergeIdle ==
    /\ mBase = EmptyManifest
    /\ mOurs = EmptyManifest
    /\ mTheirs = EmptyManifest
    /\ mCalled = FALSE
    /\ mChanges = EmptyManifest
    /\ mResult = NoResult

InitStore ==
    /\ StoreIdle
    /\ MergeIdle
    /\ RepoIdle
    /\ uuids = 0

NextStore ==
    \/ \E b \in Buffers : StoreWrite(b)
    \/ \E obj \in Objects : StoreWriteObject(obj)
    \/ \E oid \in KnownOids : StoreRead(oid)
    \/ \E oid \in KnownOids : StoreReadObject(oid)

SpecStore == InitStore /\ [][NextStore]_vars

(***************************************************************************)
(* FileSystemStore called from concurrent threads: write and write_object  *)
(* step by step (exists, File::create, the write calls of write_all), with *)
(* readers in between, and writers that are stopped between two steps.     *)
(***************************************************************************)
\* The write calls write_all needs for one compressed frame.
FrameUnits == 2

\* The calls a writer makes.
WriteJobs == {[op |-> "write", data |-> RawBytes(b)] : b \in {<<0>>, <<1>>}} \cup {[op |-> "write_object", obj |-> Object("Blob", <<0>>)]}

\* The bytes a call hashes and compresses.
JobBytes(job) == IF job.op = "write" THEN job.data ELSE bincode_serialize(job.obj)

\* A file that holds some of the units of the frame of `data`: units[i] says
\* whether unit i has been written (FALSE is a hole or nothing yet).  With
\* all units it is the frame; anything less does not decode.
UnitsOf(file) == IF "zstd" \in DOMAIN file THEN [i \in 1..FrameUnits |-> TRUE] ELSE file.torn
FileOf(units, data) == IF units = [i \in 1..FrameUnits |-> TRUE] THEN zstd_encode(data) ELSE [torn |-> units, of |-> data]

\* File::create(path): the file is created or truncated to nothing.
file_create(data) == FileOf(<<>>, data)

\* A write call that appends at the end of the file, whatever the writer's
\* own offset is.
write_at_Append(file, data, k) == FileOf(Append(UnitsOf(file), TRUE), data)

\* One write call of write_all: unit k goes to the writer's own offset.
write_at(file, data, k) ==
    LET units == UnitsOf(file)
        n == IF Len(units) < k THEN k ELSE Len(units)
    IN  FileOf([i \in 1..n |-> i = k \/ (i <= Len(units) /\ units[i])], data)

\* What a call returns: the hex string from write, the Oid from write_object.
OidReturned(job) == IF job.op = "write" THEN OidString(hash_bytes(JobBytes(job))) ELSE hash_bytes(JobBytes(job))

\* A call returns: what it returned is appended to the returns of its kind.
ReturnsAfter(job, written) ==
    IF job.op = "write"
    THEN [returned |-> Append(sReturned, [data |-> job.data, oid |-> OidReturned(job), written |-> written]), typed |-> sTyped]
    ELSE [returned |-> sReturned, typed |-> Append(sTyped, [obj |-> job.obj, oid |-> OidReturned(job), written |-> written])]

\* write / write_object is entered: the OID is computed and exists /
\* has_object asked; the call returns at once when the object's file exists.
CallWrite(w, job) ==
    /\ sProcs[w].pc = "idle"
    /\ IF object_path(hash_bytes(JobBytes(job))) \in DOMAIN sObjects
       THEN /\ sProcs' = [sProcs EXCEPT ![w] = [pc |-> "done", job |-> job, pos |-> 0, ret |-> Some(OidReturned(job))]]
            /\ sReturned' = ReturnsAfter(job, FALSE).returned
            /\ sTyped' = ReturnsAfter(job, FALSE).typed
       ELSE /\ sProcs' = [sProcs EXCEPT ![w] = [pc |-> "create", job |-> job, pos |-> 0, ret |-> None]]
            /\ UNCHANGED <<sReturned, sTyped>>
    /\ UNCHANGED <<sObjects, sLast, mergeVars, repoVars, bridgeVars, uuids, compVars>>

\* create_dir_all, zstd::encode_all, and the first half of fs::write: the
\* object's file is created, or truncated if it is there by now.
CreateFile(w) ==
    /\ sProcs[w].pc = "create"
    /\ sObjects' = fs_write(sObjects, object_path(hash_bytes(JobBytes(sProcs[w].job))), file_create(JobBytes(sProcs[w].job)))
    /\ sProcs' = [sProcs EXCEPT ![w].pc = "writing"]
    /\ UNCHANGED <<sReturned, sTyped, sLast, mergeVars, repoVars, bridgeVars, uuids, compVars>>

\* The second half of fs::write: one write call of write_all; after the
\* last one the call returns the OID.
WriteUnit(w) ==
    /\ sProcs[w].pc = "writing"
    /\ LET job == sProcs[w].job
           path == object_path(hash_bytes(JobBytes(job)))
           k == sProcs[w].pos + 1
       IN  /\ sObjects' = fs_write(sObjects, path, write_at(sObjects[path], JobBytes(job), k))
           /\ sProcs' = [sProcs EXCEPT ![w].pos = k, ![w].pc = IF k = FrameUnits THEN "done" ELSE "writing",
                                        ![w].ret = IF k = FrameUnits THEN Some(OidReturned(job)) ELSE None]
           /\ sReturned' = IF k = FrameUnits THEN ReturnsAfter(job, TRUE).returned ELSE sReturned
           /\ sTyped' = IF k = FrameUnits THEN ReturnsAfter(job, TRUE).typed ELSE sTyped
    /\ UNCHANGED <<sLast, mergeVars, repoVars, bridgeVars, uuids, compVars>>

\* The writer is stopped for good between two steps of its call (its thread
\* or process is killed, or its task is dropped).
Interrupt(w) ==
    /\ sProcs[w].pc \in {"create", "writing"}
    /\ sProcs' = [sProcs EXCEPT ![w].pc = "stopped"]
    /\ UNCHANGED <<sObjects, sReturned, sTyped, sLast, mergeVars, repoVars, bridgeVars, uuids, compVars>>

NextConc ==
    \/ \E w \in Writers, job \in WriteJobs : CallWrite(w, job)
    \/ \E w \in Writers : CreateFile(w)
    \/ \E w \in Writers : WriteUnit(w)
    \/ \E w \in Writers : Interrupt(w)
    \/ \E oid \in KnownOids : StoreRead(oid)
    \/ \E oid \in KnownOids : StoreReadObject(oid)

SpecConc == InitStore /\ [][NextConc]_vars

(***************************************************************************)
(* The store over a directory whose files can be replaced behind its back  *)
(* (a damaged disk, a restored backup, another program).                   *)
(***************************************************************************)
\* The bytes a replaced object file can hold the frame of.
TamperBytes == {RawBytes(b) : b \in Buffers} \cup {bincode_serialize(Object("Blob", <<>>))}

\* Every file of the directory holds the frame of the bytes it is named after.
Intact(dir) == \A f \in DOMAIN dir : dir[f] = zstd_encode(f.objects)

\* The file of an object the store wrote is replaced by the frame of bytes
\* that do not hash to the object's OID; one file of the directory at most
\* is replaced.
Tamper(oid, bytes) ==
    /\ Intact(sObjects)
    /\ object_path(oid) \in DOMAIN sObjects
    /\ hash_bytes(bytes) # oid
    /\ sObjects' = fs_write(sObjects, object_path(oid), zstd_encode(bytes))
    /\ UNCHANGED <<sReturned, sTyped, sLast, sProcs, mergeVars, repoVars, bridgeVars, uuids, compVars>>

NextTamper ==
    \/ NextStore
    \/ \E oid \in KnownOids, bytes \in TamperBytes : Tamper(oid, bytes)

SpecTamper == InitStore /\ [][NextTamper]_vars

(***************************************************************************)
(* Path index (wind-core/src/index.rs) and working copy                    *)
(* (crates/wind/src/working_copy.rs).                                      *)
(***************************************************************************)
\* A working tree is a map path -> [content, mtime] over the files present;
\* a file's size is the length of its content.
WFile(content, mtime) == [content |-> content, mtime |-> mtime]

\* IndexEntry {path, node_id, oid, mtime, size, permissions}, keyed by path.
IndexEntry(n, o, mtime, size, perm) == [node_id |-> n, oid |-> o, mtime |-> mtime, size |-> size, permissions |-> perm]

\* Index::add: INSERT OR REPLACE on the primary key path.
IndexAdd(index, path, entry) == [p \in DOMAIN index \cup {path} |-> IF p = path THEN entry ELSE index[p]]

\* Index::remove: DELETE WHERE path = ?.
IndexRemove(index, path) == [p \in DOMAIN index \ {path} |-> index[p]]

\* Index::lookup
IndexLookup(index, path) == IF path \in DOMAIN index THEN Some(index[path]) ELSE None

\* metadata.permissions().mode() of a regular file of the tree.
FileMode == CHOOSE perm \in Perms : TRUE


\* An add_single_file that mints a NodeID even for a path the index holds.
add_single_file_AlwaysMint(dir, index, tree, path, fresh) ==
    LET w == StoreWriteTo(dir, RawBytes(tree[path].content))
    IN  [dir |-> w.dir,
         index |-> IndexAdd(index, path, IndexEntry(fresh, w.oid, tree[path].mtime, Len(tree[path].content), FileMode)),
         minted |-> TRUE]
\* WorkingCopy::add_single_file on a file present in the tree: the store and
\* index afterwards; fresh is the Uuid minted when the path is not indexed.
add_single_file(dir, index, tree, path, fresh) ==
    LET content == RawBytes(tree[path].content)
        w == StoreWriteTo(dir, content)
        node_id == IF IndexLookup(index, path) # None THEN Unwrap(IndexLookup(index, path)).node_id ELSE fresh
    IN  [dir |-> w.dir,
         index |-> IndexAdd(index, path, IndexEntry(node_id, w.oid, tree[path].mtime, Len(tree[path].content), FileMode)),
         minted |-> IndexLookup(index, path) = None]

\* FileChange {path, status, node_id} of the working copy, and FileStatus.
WcChange(path, status, n) == [path |-> path, status |-> status, node_id |-> Some(n)]
StatusModified == [status |-> "Modified"]
StatusDeleted == [status |-> "Deleted"]
StatusUntracked == [status |-> "Untracked"]
StatusRenamed(from, to) == [status |-> "Renamed", from |-> from, to |-> to]

\* The paths of `seq` (ascending) that are in `ps`, as a sequence.
RECURSIVE PathsIn(_, _)
PathsIn(ps, i) ==
    IF i > Len(PathSeq) THEN <<>>
    ELSE (IF PathSeq[i] \in ps THEN <<PathSeq[i]>> ELSE <<>>) \o PathsIn(ps, i + 1)

\* A walk that reports every indexed file whose stat differs, whatever its
\* content.
RECURSIVE ScanWalk_StatOnly(_, _, _, _, _)
ScanWalk_StatOnly(acc, index, tree, walk, i) ==
    IF i > Len(walk) THEN acc
    ELSE LET path == walk[i]
             f == tree[path]
         IN  IF path \in DOMAIN index
             THEN IF index[path].mtime # f.mtime \/ index[path].size # Len(f.content)
                  THEN LET w == StoreWriteTo(acc.dir, RawBytes(f.content))
                       IN  ScanWalk_StatOnly([acc EXCEPT !.dir = w.dir,
                                                         !.changes = Append(@, WcChange(path, StatusModified, index[path].node_id))],
                                             index, tree, walk, i + 1)
                  ELSE ScanWalk_StatOnly(acc, index, tree, walk, i + 1)
             ELSE ScanWalk_StatOnly([acc EXCEPT !.changes = Append(@, WcChange(path, StatusUntracked, Uuid(acc.uuids + 1))),
                                                !.uuids = @ + 1],
                                    index, tree, walk, i + 1)

\* scan_working_tree, first loop: the walk over the files of the tree.  For
\* an indexed path whose stat differs the content is written to the store
\* and compared; an unindexed path is Untracked with a fresh NodeID.
RECURSIVE ScanWalk(_, _, _, _, _)
ScanWalk(acc, index, tree, walk, i) ==
    IF i > Len(walk) THEN acc
    ELSE LET path == walk[i]
             f == tree[path]
         IN  IF path \in DOMAIN index
             THEN IF index[path].mtime # f.mtime \/ index[path].size # Len(f.content)
                  THEN LET w == StoreWriteTo(acc.dir, RawBytes(f.content))
                       IN  ScanWalk([acc EXCEPT !.dir = w.dir,
                                                !.changes = IF w.oid # index[path].oid THEN Append(@, WcChange(path, StatusModified, index[path].node_id)) ELSE @],
                                    index, tree, walk, i + 1)
                  ELSE ScanWalk(acc, index, tree, walk, i + 1)
             ELSE ScanWalk([acc EXCEPT !.changes = Append(@, WcChange(path, StatusUntracked, Uuid(acc.uuids + 1))),
                                       !.uuids = @ + 1],
                           index, tree, walk, i + 1)

\* scan_working_tree, second loop: the content of every Untracked file is
\* written to the store.
RECURSIVE ScanUntracked(_, _, _, _)
ScanUntracked(dir, tree, changes, i) ==
    IF i > Len(changes) THEN dir
    ELSE IF changes[i].status = StatusUntracked
         THEN ScanUntracked(StoreWriteTo(dir, RawBytes(tree[changes[i].path].content)).dir, tree, changes, i + 1)
         ELSE ScanUntracked(dir, tree, changes, i + 1)

\* The first untracked path, in the HashMap's iteration order `uorder`, whose
\* content OID equals `oid`; None when there is none.
RECURSIVE FirstMatch(_, _, _, _)
FirstMatch(tree, uorder, oid, i) ==
    IF i > Len(uorder) THEN None
    ELSE IF OidString(hash_bytes(RawBytes(tree[uorder[i]].content))) = oid THEN Some(uorder[i])
    ELSE FirstMatch(tree, uorder, oid, i + 1)

\* scan_working_tree, third loop: every indexed path the walk did not visit
\* becomes a Renamed (collected apart) or is pushed as Deleted.
RECURSIVE ScanMissing(_, _, _, _, _, _)
ScanMissing(acc, index, tree, missing, uorder, i) ==
    IF i > Len(missing) THEN acc
    ELSE LET path == missing[i]
             hit == FirstMatch(tree, uorder, index[path].oid, 1)
         IN  IF hit # None
             THEN ScanMissing([acc EXCEPT !.renamed = Append(@, WcChange(Unwrap(hit), StatusRenamed(path, Unwrap(hit)), index[path].node_id))],
                              index, tree, missing, uorder, i + 1)
             ELSE ScanMissing([acc EXCEPT !.changes = Append(@, WcChange(path, StatusDeleted, index[path].node_id))],
                              index, tree, missing, uorder, i + 1)

\* A retain that drops nothing.
RetainNotUntracked_KeepAll(changes, to) == changes

\* Vec::retain(|c| c.path != to || c.status != Untracked)
RECURSIVE RetainNotUntracked(_, _)
RetainNotUntracked(changes, to) ==
    IF changes = <<>> THEN <<>>
    ELSE (IF Head(changes).path # to \/ Head(changes).status # StatusUntracked THEN <<Head(changes)>> ELSE <<>>) \o RetainNotUntracked(Tail(changes), to)

\* scan_working_tree, last loop: each rename drops the Untracked report of
\* its target and is pushed.
RECURSIVE ScanRenames(_, _, _)
ScanRenames(changes, renamed, i) ==
    IF i > Len(renamed) THEN changes
    ELSE ScanRenames(Append(RetainNotUntracked(changes, renamed[i].status.to), renamed[i]), renamed, i + 1)

\* WorkingCopy::scan_working_tree: the changes reported, the store afterwards
\* and the number of Uuids drawn.  `walk` is the order of the directory walk,
\* `morder` the iteration order of the leftover indexed_map and `uorder` that
\* of untracked_with_content.
scan_working_tree(dir, index, tree, drawn, walk, morder, uorder) ==
    LET w == ScanWalk([dir |-> dir, changes |-> <<>>, uuids |-> drawn], index, tree, walk, 1)
        dir2 == ScanUntracked(w.dir, tree, w.changes, 1)
        m == ScanMissing([changes |-> w.changes, renamed |-> <<>>], index, tree, morder, uorder, 1)
    IN  [changes |-> ScanRenames(m.changes, m.renamed, 1), dir |-> dir2, uuids |-> w.uuids]

(***************************************************************************)
(* MergeEngine (wind-core/src/merge.rs).                                   *)
(***************************************************************************)
\* NodeIDs and paths of the manifests handed to merge on its own.
MergeNodes == {"n1", "n2"}
MergePaths == {"a.txt", "b.txt"}

\* Manifests a commit can have written: at most one entry per path, and no
\* NodeID at two paths.
ManifestsOver(nodes, oids) == UNION {{m \in [ps -> {ManifestEntry(n, o, perm) : n \in nodes, o \in oids, perm \in Perms}] : \A p, q \in ps : m[p].node_id = m[q].node_id => p = q} : ps \in SUBSET MergePaths}

\* manifest.entries.values().find(|e| e.node_id == node_id).map(|e| e.oid)
EntryOid(m, n) == LET ps == {p \in DOMAIN m : m[p].node_id = n} IN IF ps = {} THEN None ELSE Some(m[FirstPath(ps)].oid)

\* MergeEngine::find_path_for_node
find_path_for_node(m, n) == LET ps == {p \in DOMAIN m : m[p].node_id = n} IN IF ps = {} THEN None ELSE Some(FirstPath(ps))

\* A collect_all_node_ids that forgets the NodeIDs only theirs holds.
collect_all_node_ids_NoTheirs(base, ours, theirs) == {base[p].node_id : p \in DOMAIN base} \cup {ours[p].node_id : p \in DOMAIN ours}

\* MergeEngine::collect_all_node_ids
collect_all_node_ids(base, ours, theirs) == {base[p].node_id : p \in DOMAIN base} \cup {ours[p].node_id : p \in DOMAIN ours} \cup {theirs[p].node_id : p \in DOMAIN theirs}

\* The path recorded in a ConflictInfo: ours' path, else theirs', else unknown_<id>.
ConflictPath(ours, theirs, n) ==
    IF find_path_for_node(ours, n) # None THEN Unwrap(find_path_for_node(ours, n))
    ELSE IF find_path_for_node(theirs, n) # None THEN Unwrap(find_path_for_node(theirs, n))
    ELSE <<"unknown_", n>>

ConflictInfo(n, path, b, o, t) == [node_id |-> n, path |-> path, base_oid |-> b, ours_oid |-> o, theirs_oid |-> t]

\* One iteration of merge's loop over all_node_ids: the match on (base_oid,
\* ours_oid, theirs_oid), arm by arm in the order of the source.
MergeArm(acc, base, ours, theirs, n) ==
    LET b == EntryOid(base, n)
        o == EntryOid(ours, n)
        t == EntryOid(theirs, n)
        path == ConflictPath(ours, theirs, n)
    IN  IF b # None /\ o # None /\ t # None /\ o = t THEN acc
        ELSE IF b # None /\ o # None /\ t # None /\ b = o /\ b # t
            THEN [acc EXCEPT !.merged_changes = MapInsert(@, n, Modified(Unwrap(t)))]
        ELSE IF b # None /\ o # None /\ t # None /\ b = t /\ b # o
            THEN [acc EXCEPT !.merged_changes = MapInsert(@, n, Modified(Unwrap(o)))]
        ELSE IF b # None /\ o # None /\ t # None /\ o # t
            THEN [acc EXCEPT !.conflicts = Append(@, ConflictInfo(n, path, b, o, t))]
        ELSE IF b = None /\ o # None /\ t = None
            THEN [acc EXCEPT !.merged_changes = MapInsert(@, n, Added(Unwrap(o)))]
        ELSE IF b = None /\ o = None /\ t # None
            THEN [acc EXCEPT !.merged_changes = MapInsert(@, n, Added(Unwrap(t)))]
        ELSE IF b # None /\ o = None /\ t = None
            THEN [acc EXCEPT !.merged_changes = MapInsert(@, n, Deleted)]
        ELSE IF b = None /\ o # None /\ t # None /\ o # t
            THEN [acc EXCEPT !.conflicts = Append(@, ConflictInfo(n, path, None, o, t))]
        ELSE IF (b # None /\ o # None /\ t = None) \/ (b # None /\ o = None /\ t # None)
            THEN [acc EXCEPT !.conflicts = Append(@, ConflictInfo(n, path, b, o, t))]
        ELSE acc

RECURSIVE MergeLoop(_, _, _, _, _, _)
\* The loop `for node_id in all_node_ids`, visiting the HashSet in `order`.
MergeLoop(acc, base, ours, theirs, order, i) ==
    IF i > Len(order) THEN acc
    ELSE MergeLoop(MergeArm(acc, base, ours, theirs, order[i]), base, ours, theirs, order, i + 1)

\* MergeResult::{Clean, Conflicts}.
Clean(id) == [result |-> "Clean", new_changeset_id |-> id]
Conflicts(cs) == [result |-> "Conflicts", conflicts |-> cs]

\* MergeEngine::merge on loaded manifests: the loop's outcome and the result
\* returned; new_id is the Uuid drawn for a clean merge.
MergeManifests(base, ours, theirs, order, new_id) ==
    LET acc == MergeLoop([merged_changes |-> EmptyManifest, conflicts |-> <<>>], base, ours, theirs, order, 1)
    IN  [merged_changes |-> acc.merged_changes,
         result |-> IF acc.conflicts # <<>> THEN Conflicts(acc.conflicts) ELSE Clean(new_id)]

\* merge(base, ours, theirs) called on the three manifests.
MergeCall ==
    /\ ~mCalled
    /\ uuids < MaxUuid
    /\ \E order \in Orders(collect_all_node_ids(mBase, mOurs, mTheirs)) :
        LET r == MergeManifests(mBase, mOurs, mTheirs, order, Uuid(uuids + 1))
        IN  /\ mChanges' = r.merged_changes
            /\ mResult' = r.result
            /\ uuids' = IF r.result.result = "Clean" THEN uuids + 1 ELSE uuids
    /\ mCalled' = TRUE
    /\ UNCHANGED <<mBase, mOurs, mTheirs, storeVars, repoVars, bridgeVars, compVars>>

InitMerge ==
    /\ mBase \in ManifestsOver(MergeNodes, BlobOids)
    /\ mOurs \in ManifestsOver(MergeNodes, BlobOids)
    /\ mTheirs \in ManifestsOver(MergeNodes, BlobOids)
    /\ mCalled = FALSE
    /\ mChanges = EmptyManifest
    /\ mResult = NoResult
    /\ uuids = 0
    /\ StoreIdle
    /\ RepoIdle

NextMerge == MergeCall

SpecMerge == InitMerge /\ [][NextMerge]_vars

(***************************************************************************)
(* Claims about MergeEngine::merge (checked under SpecMerge).              *)
(***************************************************************************)
\* The OID a manifest holds for a NodeID, None when it holds none.
OidOfNode(m, n) == IF \E p \in DOMAIN m : m[p].node_id = n THEN Some(m[CHOOSE p \in DOMAIN m : m[p].node_id = n].oid) ELSE None

\* The decision table of the claim, on an OID triple (each possibly absent).
TableRow(b, o, t) ==
    CASE o = None /\ t = None -> Deleted
      [] b = None /\ o # None /\ t = None -> Added(Unwrap(o))
      [] b = None /\ o = None /\ t # None -> Added(Unwrap(t))
      [] o # None /\ t # None /\ o = t -> [change |-> "NoChange"]
      [] b # None /\ o # None /\ t # None /\ o # t /\ b = o -> Modified(Unwrap(t))
      [] b # None /\ o # None /\ t # None /\ o # t /\ b = t -> Modified(Unwrap(o))
      [] OTHER -> [change |-> "Conflict"]

MergeNodeSet == UNION {{m[p].node_id : p \in DOMAIN m} : m \in {mBase, mOurs, mTheirs}}
TableOf(n) == TableRow(OidOfNode(mBase, n), OidOfNode(mOurs, n), OidOfNode(mTheirs, n))
TableConflicts == {n \in MergeNodeSet : TableOf(n).change = "Conflict"}

\* C1: merge classifies every NodeID of the three manifests by its OID triple
\* exactly as the decision table says (no change, Modified, Added, Deleted or
\* conflict), and returns Conflicts, listing exactly the conflicting NodeIDs
\* once each with their three OIDs, iff some NodeID is a conflict; otherwise
\* it returns Clean.
C1_MergeDecisionTable ==
    mCalled =>
        /\ \A n \in MergeNodeSet :
            /\ TableOf(n).change \in {"NoChange", "Conflict"} <=> n \notin DOMAIN mChanges
            /\ TableOf(n).change \notin {"NoChange", "Conflict"} => mChanges[n] = TableOf(n)
        /\ DOMAIN mChanges \subseteq MergeNodeSet
        /\ (mResult.result = "Conflicts") <=> (TableConflicts # {})
        /\ (mResult.result = "Clean") <=> (TableConflicts = {})
        /\ mResult.result = "Conflicts" =>
            /\ Len(mResult.conflicts) = Cardinality(TableConflicts)
            /\ \A n \in TableConflicts : \E i \in 1..Len(mResult.conflicts) :
                /\ mResult.conflicts[i].node_id = n
                /\ mResult.conflicts[i].base_oid = OidOfNode(mBase, n)
                /\ mResult.conflicts[i].ours_oid = OidOfNode(mOurs, n)
                /\ mResult.conflicts[i].theirs_oid = OidOfNode(mTheirs, n)

\* A merge that met a modify/delete conflict on one NodeID and took theirs'
\* content for another.
C1_Witness ==
    /\ mCalled
    /\ mResult.result = "Conflicts"
    /\ \E n \in MergeNodeSet : OidOfNode(mBase, n) # None /\ OidOfNode(mOurs, n) # None /\ OidOfNode(mTheirs, n) = None
    /\ \E n \in DOMAIN mChanges : mChanges[n].change = "Modified" /\ Some(mChanges[n].oid) = OidOfNode(mTheirs, n) /\ OidOfNode(mOurs, n) # OidOfNode(mTheirs, n)

(***************************************************************************)
(* Claims about the object store (checked under SpecStore).                *)
(***************************************************************************)
\* C3: object store round trip.  Once write(B) has returned oid, read(oid)
\* returns exactly B in every later state, whatever else has been written in
\* between; likewise read_object(write_object(obj)) = obj for typed objects.
C3_StoreRoundTrip ==
    /\ \A i \in 1..Len(sReturned) : StoreReadFrom(sObjects, sReturned[i].oid) = Ok(sReturned[i].data)
    /\ \A i \in 1..Len(sTyped) : ReadObjectFrom(sObjects, sTyped[i].oid) = Ok(sTyped[i].obj)
    /\ sLast.result = "read" => \A i \in 1..Len(sReturned) : sReturned[i].oid = sLast.oid => sLast.value = Ok(sReturned[i].data)
    /\ sLast.result = "read_object" => \A i \in 1..Len(sTyped) : sTyped[i].oid = sLast.oid => sLast.value = Ok(sTyped[i].obj)

\* A buffer was written, then a typed object with other bytes, and a read
\* made after both returned the buffer.
C3_Witness ==
    /\ Len(sReturned) >= 1
    /\ Len(sTyped) >= 1
    /\ sTyped[1].oid # Unwrap(from_hex(sReturned[1].oid))
    /\ sLast.result = "read"
    /\ sLast.writes = 2
    /\ sLast.oid = sReturned[1].oid
    /\ sLast.value = Ok(sReturned[1].data)
    /\ Len(sReturned[1].data.bytes) > 0

(***************************************************************************)
(* UnifiedRepository (wind-core/src/unified_repository.rs).                *)
(***************************************************************************)
\* Paths and contents of the files of the repository's working tree.
RepoPaths == {"a.txt", "b.txt"}
RepoContents == {<<0>>, <<1>>}

\* commit is called at most MaxCommits times.
MaxCommits == 2

\* String::new(): the head of a branch with no commit.
EmptyString == [str |-> ""]

\* Branch {id, name, head}.
Branch(id, name, head) == [id |-> id, name |-> name, head |-> head]

\* serde_json::to_vec / from_slice of a Manifest and of a Changeset.
ManifestJson(m) == [manifest |-> m]
ChangesetJson(cs) == [changeset |-> cs]
ParseManifest(data) == IF "manifest" \in DOMAIN data THEN Ok(data.manifest) ELSE Err("Failed to deserialize manifest")
ParseChangeset(data) == IF "changeset" \in DOMAIN data THEN Ok(data.changeset) ELSE Err("Failed to deserialize changeset")

\* A Changeset::new that drops the parents it is given.
ChangesetNew_NoParents(id, parents, changes, message, author, timestamp, root_manifest) ==
    [id |-> id, parents |-> <<>>, changes |-> changes, commit_message |-> message, author |-> author, timestamp |-> timestamp, root_manifest |-> root_manifest]

\* A Changeset::new whose parent is an OID nothing was written under.
ChangesetNew_UnwrittenParent(id, parents, changes, message, author, timestamp, root_manifest) ==
    [id |-> id, parents |-> <<OidString(hash_bytes(id))>>, changes |-> changes, commit_message |-> message, author |-> author, timestamp |-> timestamp, root_manifest |-> root_manifest]

\* Changeset::new: a fresh Uuid as id, the clock as timestamp.
ChangesetNew(id, parents, changes, message, author, timestamp, root_manifest) ==
    [id |-> id, parents |-> parents, changes |-> changes, commit_message |-> message, author |-> author, timestamp |-> timestamp, root_manifest |-> root_manifest]

\* UnifiedRepository::read_branch: the Branch stored under refs/heads/<id>.
read_branch(refs, id) == IF id \in DOMAIN refs THEN Ok(refs[id]) ELSE Err("No such file")

\* UnifiedRepository::build_current_manifest
build_current_manifest(index) == [p \in DOMAIN index |-> ManifestEntry(index[p].node_id, index[p].oid, index[p].permissions)]

\* The changes commit records: Added{oid} for every index entry, by NodeID.
CommitChanges(index) == [n \in {index[p].node_id : p \in DOMAIN index} |-> Added(index[CHOOSE p \in DOMAIN index : index[p].node_id = n].oid)]

\* The changeset stored under an oid string; Err when the object is missing
\* or is no changeset.
LoadChangeset(dir, oid_str) == IF IsOk(StoreReadFrom(dir, oid_str)) THEN ParseChangeset(StoreReadFrom(dir, oid_str).ok) ELSE StoreReadFrom(dir, oid_str)

\* MergeEngine::load_manifest
load_manifest(dir, oid_str) == IF IsOk(StoreReadFrom(dir, oid_str)) THEN ParseManifest(StoreReadFrom(dir, oid_str).ok) ELSE Err("Failed to read manifest")

\* The default ignore file init writes: it ignores none of the paths here.
default_content == <<0, 1>>

\* UnifiedRepository::init on an empty directory: the default .windignore in
\* the working tree, a branch "main" with a fresh id and no head, HEAD naming
\* it, and a handle on it.
InitRepo ==
    /\ rObjects = NoFiles
    /\ rIndex = NoFiles
    /\ rTree = (".windignore" :> WFile(default_content, 0))
    /\ now = 0
    /\ rRefs = (Uuid(1) :> Branch(Uuid(1), "main", EmptyString))
    /\ rHeadFile = Some(Uuid(1))
    /\ rCurrent = Some(Uuid(1))
    /\ rOpen = TRUE
    /\ BridgeIdle
    /\ rCommits = <<>>
    /\ rMoved = None
    /\ rLast = NoResult
    /\ uuids = 1
    /\ MergeIdle
    /\ StoreIdle

\* fs::write(path, content) in the working tree.
WriteFile(path, content) ==
    /\ rTree' = fs_write(rTree, path, WFile(content, now))
    /\ rMoved' = IF rMoved # None /\ path \in {Unwrap(rMoved).from, Unwrap(rMoved).to} THEN None ELSE rMoved
    /\ rLast' = NoResult
    /\ UNCHANGED <<rObjects, rIndex, now, rRefs, rHeadFile, rOpen, rCurrent, rCommits, uuids, mergeVars, storeVars, bridgeVars, compVars>>

\* fs::remove_file(path) in the working tree.
DeleteFile(path) ==
    /\ path \in DOMAIN rTree
    /\ rTree' = [p \in DOMAIN rTree \ {path} |-> rTree[p]]
    /\ rMoved' = IF rMoved # None /\ path \in {Unwrap(rMoved).from, Unwrap(rMoved).to} THEN None ELSE rMoved
    /\ rLast' = NoResult
    /\ UNCHANGED <<rObjects, rIndex, now, rRefs, rHeadFile, rOpen, rCurrent, rCommits, uuids, mergeVars, storeVars, bridgeVars, compVars>>

\* fs::rename(from, to) of a tracked file to a path that is neither present
\* nor tracked: the file keeps its content and mtime.
MoveFile(from, to) ==
    /\ from \in DOMAIN rTree
    /\ from \in DOMAIN rIndex
    /\ to \notin DOMAIN rTree
    /\ to \notin DOMAIN rIndex
    /\ rTree' = [p \in (DOMAIN rTree \ {from}) \cup {to} |-> IF p = to THEN rTree[from] ELSE rTree[p]]
    /\ rMoved' = IF rIndex[from].oid = OidString(hash_bytes(RawBytes(rTree[from].content)))
                 THEN Some([from |-> from, to |-> to, node_id |-> rIndex[from].node_id])
                 ELSE None
    /\ rLast' = NoResult
    /\ UNCHANGED <<rObjects, rIndex, now, rRefs, rHeadFile, rOpen, rCurrent, rCommits, uuids, mergeVars, storeVars, bridgeVars, compVars>>

\* UnifiedRepository::add(vec![path]) for a file of the working tree.
Add(path) ==
    /\ path \in DOMAIN rTree
    /\ LET r == add_single_file(rObjects, rIndex, rTree, path, Uuid(uuids + 1))
       IN  /\ r.minted => uuids < MaxUuid
           /\ rObjects' = r.dir
           /\ rIndex' = r.index
           /\ uuids' = IF r.minted THEN uuids + 1 ELSE uuids
    /\ rLast' = NoResult
    /\ UNCHANGED <<rTree, now, rRefs, rHeadFile, rOpen, rCurrent, rCommits, rMoved, mergeVars, storeVars, bridgeVars, compVars>>

\* WorkingCopy::remove_file(path)
RemoveFile(path) ==
    /\ path \in DOMAIN rIndex
    /\ rIndex' = IndexRemove(rIndex, path)
    /\ rLast' = NoResult
    /\ rMoved' = IF rMoved # None /\ path = Unwrap(rMoved).to THEN None ELSE rMoved
    /\ UNCHANGED <<rObjects, rTree, now, rRefs, rHeadFile, rOpen, rCurrent, rCommits, uuids, mergeVars, storeVars, bridgeVars, compVars>>

\* UnifiedRepository::commit: what it writes and returns, on the store `dir`,
\* the index, the branch files and the handle's current branch.
CommitOn(dir, index, refs, current, message, author, id, timestamp) ==
    LET manifest == build_current_manifest(index)
        w1 == StoreWriteTo(dir, ManifestJson(manifest))
        branch == IF current # None THEN read_branch(refs, Unwrap(current)) ELSE Err("none")
        parents == IF current # None
                   THEN (IF branch.ok.head = EmptyString THEN <<>> ELSE <<branch.ok.head>>)
                   ELSE <<>>
        changeset == ChangesetNew(id, parents, CommitChanges(index), message, author, timestamp, w1.oid)
        w2 == StoreWriteTo(w1.dir, ChangesetJson(changeset))
    IN  IF current # None /\ ~IsOk(branch) THEN [value |-> branch, dir |-> w1.dir, refs |-> refs]
        ELSE [value |-> Ok(w2.oid),
              dir |-> w2.dir,
              refs |-> IF current # None THEN fs_write(refs, Unwrap(current), [branch.ok EXCEPT !.head = w2.oid]) ELSE refs]

\* repo.commit(message) in a process whose environment has USER = author.
CommitAs(author) ==
    /\ Len(rCommits) < MaxCommits
    /\ uuids < MaxUuid
    /\ LET r == CommitOn(rObjects, rIndex, rRefs, rCurrent, "message", author, Uuid(uuids + 1), now)
       IN  /\ rObjects' = r.dir
           /\ rRefs' = r.refs
           /\ rCommits' = IF IsOk(r.value) THEN Append(rCommits, r.value.ok) ELSE rCommits
           /\ rLast' = [result |-> "commit", value |-> r.value]
    /\ uuids' = uuids + 1
    /\ UNCHANGED <<rIndex, rTree, now, rHeadFile, rOpen, rCurrent, rMoved, mergeVars, storeVars, bridgeVars, compVars>>

\* repo.commit(message) with USER = "user"
Commit == CommitAs("user")

\* UnifiedRepository::log's loop: at most `limit` changesets from oid on,
\* following the first parent.
RECURSIVE LogFrom(_, _, _, _)
LogFrom(dir, current_oid, limit, changesets) ==
    IF limit = 0 \/ current_oid = EmptyString THEN Ok(changesets)
    ELSE LET cs == LoadChangeset(dir, current_oid)
         IN  IF ~IsOk(cs) THEN cs
             ELSE IF cs.ok.parents = <<>> THEN Ok(Append(changesets, cs.ok))
             ELSE LogFrom(dir, cs.ok.parents[1], limit - 1, Append(changesets, cs.ok))

\* UnifiedRepository::log
LogOn(dir, refs, current, limit) ==
    IF current = None THEN Err("No current branch")
    ELSE IF ~IsOk(read_branch(refs, Unwrap(current))) THEN read_branch(refs, Unwrap(current))
    ELSE LogFrom(dir, read_branch(refs, Unwrap(current)).ok.head, limit, <<>>)

\* repo.log(limit)
Log(limit) ==
    /\ rLast' = [result |-> "log", limit |-> limit, value |-> LogOn(rObjects, rRefs, rCurrent, limit)]
    /\ UNCHANGED <<rObjects, rIndex, rTree, now, rRefs, rHeadFile, rOpen, rCurrent, rCommits, rMoved, uuids, mergeVars, storeVars, bridgeVars, compVars>>

\* UnifiedRepository::merge followed by MergeEngine::merge: base and ours
\* are both read from the current branch's head, theirs from other_oid.
MergeOn(dir, refs, current, other_oid, order, new_id) ==
    IF current = None THEN Err("No current branch")
    ELSE IF ~IsOk(read_branch(refs, Unwrap(current))) THEN read_branch(refs, Unwrap(current))
    ELSE LET head == read_branch(refs, Unwrap(current)).ok.head
             base == LoadChangeset(dir, head)
             ours == LoadChangeset(dir, head)
             theirs == LoadChangeset(dir, other_oid)
         IN  IF ~IsOk(base) THEN base
             ELSE IF ~IsOk(ours) THEN ours
             ELSE IF ~IsOk(theirs) THEN theirs
             ELSE IF ~IsOk(load_manifest(dir, base.ok.root_manifest)) THEN load_manifest(dir, base.ok.root_manifest)
             ELSE IF ~IsOk(load_manifest(dir, ours.ok.root_manifest)) THEN load_manifest(dir, ours.ok.root_manifest)
             ELSE IF ~IsOk(load_manifest(dir, theirs.ok.root_manifest)) THEN load_manifest(dir, theirs.ok.root_manifest)
             ELSE Ok(MergeManifests(load_manifest(dir, base.ok.root_manifest).ok, load_manifest(dir, ours.ok.root_manifest).ok, load_manifest(dir, theirs.ok.root_manifest).ok, order, new_id))

\* The NodeIDs merge iterates over, for the choice of the iteration order.
MergeNodesOn(dir, refs, current, other_oid) ==
    IF IsOk(MergeOn(dir, refs, current, other_oid, <<>>, Uuid(0)))
    THEN LET head == read_branch(refs, Unwrap(current)).ok.head
             ours == load_manifest(dir, LoadChangeset(dir, head).ok.root_manifest).ok
             theirs == load_manifest(dir, LoadChangeset(dir, other_oid).ok.root_manifest).ok
         IN  collect_all_node_ids(ours, ours, theirs)
    ELSE {}

\* A merge that moves the head of the current branch to the other changeset.
Merge_MovesHead(other_oid) ==
    /\ rCurrent # None
    /\ \E order \in Orders(MergeNodesOn(rObjects, rRefs, rCurrent, other_oid)) :
        rLast' = [result |-> "merge", other |-> other_oid, value |-> MergeOn(rObjects, rRefs, rCurrent, other_oid, order, Uuid(uuids + 1))]
    /\ rRefs' = fs_write(rRefs, Unwrap(rCurrent), [read_branch(rRefs, Unwrap(rCurrent)).ok EXCEPT !.head = other_oid])
    /\ UNCHANGED <<rObjects, rIndex, rTree, now, rHeadFile, rOpen, rCurrent, rCommits, rMoved, uuids, mergeVars, storeVars, bridgeVars, compVars>>

\* repo.merge(other_oid), for an oid commit has returned.  The id of a Clean
\* result is returned and never stored: it is the next fresh Uuid, and the
\* result that holds it is gone before another id is minted.
Merge(other_oid) ==
    /\ \E order \in Orders(MergeNodesOn(rObjects, rRefs, rCurrent, other_oid)) :
        rLast' = [result |-> "merge", other |-> other_oid, value |-> MergeOn(rObjects, rRefs, rCurrent, other_oid, order, Uuid(uuids + 1))]
    /\ UNCHANGED <<rObjects, rIndex, rTree, now, rRefs, rHeadFile, rOpen, rCurrent, rCommits, rMoved, uuids, mergeVars, storeVars, bridgeVars, compVars>>

\* repo.status().  The NodeIDs of its Untracked entries are returned and
\* never stored, as the id of a Clean merge.
Status ==
    /\ \E morder \in Orders(DOMAIN rIndex \ DOMAIN rTree), uorder \in Orders(DOMAIN rTree \ DOMAIN rIndex) :
        LET r == scan_working_tree(rObjects, rIndex, rTree, uuids, PathsIn(DOMAIN rTree, 1), morder, uorder)
        IN  /\ rLast' = [result |-> "status", value |-> r.changes]
            /\ rObjects' = r.dir
    /\ UNCHANGED <<rIndex, rTree, now, rRefs, rHeadFile, rOpen, rCurrent, rCommits, rMoved, uuids, mergeVars, storeVars, bridgeVars, compVars>>

NextRepo ==
    \/ \E path \in RepoPaths, content \in RepoContents : WriteFile(path, content)
    \/ \E path \in RepoPaths : DeleteFile(path)
    \/ \E from, to \in RepoPaths : MoveFile(from, to)
    \/ \E path \in RepoPaths : Add(path)
    \/ \E path \in RepoPaths : RemoveFile(path)
    \/ Commit
    \/ \E limit \in 0..(MaxCommits + 1) : Log(limit)
    \/ \E i \in 1..Len(rCommits) : Merge(rCommits[i])
    \/ Status

SpecRepo == InitRepo /\ [][NextRepo]_vars


(***************************************************************************)
(* Claims about UnifiedRepository.                                         *)
(***************************************************************************)
\* The head of the current branch, and the manifest a changeset committed.
HeadOid == read_branch(rRefs, Unwrap(rCurrent)).ok.head
ManifestOf(oid) == load_manifest(rObjects, LoadChangeset(rObjects, oid).ok.root_manifest).ok

\* C2: merge(other) merges against the common ancestor of the head and
\* other.  When other is an ancestor of the head (the branch that kept f
\* unchanged) and the head changed f, the common ancestor is other itself:
\* the merge is Clean and its decision for f keeps the head's content.
C2_MergeAgainstCommonAncestor ==
    rLast.result = "merge" =>
        \A i \in 1..(Len(rCommits) - 1) :
            rLast.other = rCommits[i] =>
                LET base == ManifestOf(rCommits[i])
                    ours == ManifestOf(HeadOid)
                IN  \A f \in DOMAIN base \cap DOMAIN ours :
                        (base[f].node_id = ours[f].node_id /\ base[f].oid # ours[f].oid) =>
                            /\ IsOk(rLast.value)
                            /\ rLast.value.ok.result.result = "Clean"
                            /\ ours[f].node_id \in DOMAIN rLast.value.ok.merged_changes
                            /\ rLast.value.ok.merged_changes[ours[f].node_id] = Modified(ours[f].oid)

\* C4: a file moved from a tracked path to a new path with its content
\* unchanged keeps its NodeID when the new path is added, in the index and in
\* the manifest of the commit that follows.
C4_NodeIdPersistsAcrossRename ==
    (rMoved # None /\ Unwrap(rMoved).to \in DOMAIN rIndex) =>
        /\ rIndex[Unwrap(rMoved).to].node_id = Unwrap(rMoved).node_id
        /\ (rLast.result = "commit" /\ IsOk(rLast.value)) =>
                ManifestOf(rLast.value.ok)[Unwrap(rMoved).to].node_id = Unwrap(rMoved).node_id

\* What log(n) is to return after the commits of rCommits: the changesets of
\* the last min(k, n) commits, newest first.
ExpectedLog(n) ==
    LET k == Len(rCommits)
        len == IF k < n THEN k ELSE n
    IN  [i \in 1..len |-> LoadChangeset(rObjects, rCommits[k + 1 - i]).ok]

\* C6: after k commits on a freshly initialised repository log(n) returns
\* the last min(k, n) changesets, newest first; the first commit has no
\* parents and every later one exactly the OID the commit before it returned;
\* the branch head is the OID the last commit returned.
C6_LogAndParents ==
    /\ \A n \in 0..(MaxCommits + 1) : LogOn(rObjects, rRefs, rCurrent, n) = Ok(ExpectedLog(n))
    /\ rLast.result = "log" => rLast.value = Ok(ExpectedLog(rLast.limit))
    /\ \A i \in 1..Len(rCommits) :
        /\ IsOk(LoadChangeset(rObjects, rCommits[i]))
        /\ LoadChangeset(rObjects, rCommits[i]).ok.parents = IF i = 1 THEN <<>> ELSE <<rCommits[i - 1]>>
    /\ HeadOid = IF rCommits = <<>> THEN EmptyString ELSE rCommits[Len(rCommits)]
    /\ rLast.result = "commit" => (IsOk(rLast.value) /\ rLast.value.ok = HeadOid)

\* log(1) and log(3) have been answered after two commits.
C6_Witness ==
    /\ Len(rCommits) = 2
    /\ rLast.result = "log"
    /\ rLast.limit = 1
    /\ Len(rLast.value.ok) = 1
    /\ rLast.value.ok[1].parents = <<rCommits[1]>>


(***************************************************************************)
(* WorkingCopy::scan_working_tree on its own: every index three earlier    *)
(* adds can have left, against every working tree.                         *)
(***************************************************************************)
ScanPaths == {"a.txt", "b.txt", "c.txt"}
Times == {0, 1}

\* The working trees over ScanPaths.
ScanTrees == UNION {[ps -> {WFile(c, t) : c \in RepoContents, t \in Times}] : ps \in SUBSET ScanPaths}

\* The index add_single_file leaves after adding every file of `tree`, the
\* NodeID of a path being the Uuid minted at its first add.
IndexOfTree(tree) ==
    [p \in DOMAIN tree |-> IndexEntry(Uuid(CHOOSE i \in 1..Len(PathSeq) : PathSeq[i] = p), OidString(hash_bytes(RawBytes(tree[p].content))), tree[p].mtime, Len(tree[p].content), FileMode)]

\* The store after those adds: the blob of every file added.
BlobsOfTree(tree) ==
    [f \in {object_path(hash_bytes(RawBytes(tree[p].content))) : p \in DOMAIN tree} |-> zstd_encode(f.objects)]

InitScan ==
    /\ rTree \in ScanTrees
    /\ \E added \in ScanTrees :
        /\ rIndex = IndexOfTree(added)
        /\ rObjects = BlobsOfTree(added)
    /\ now = 1
    /\ rRefs = NoFiles
    /\ rHeadFile = None
    /\ rCurrent = None
    /\ rOpen = FALSE
    /\ BridgeIdle
    /\ rCommits = <<>>
    /\ rMoved = None
    /\ rLast = NoResult
    /\ uuids = Len(PathSeq)
    /\ MergeIdle
    /\ StoreIdle

SpecScan == InitScan /\ [][Status]_vars

\* The content OID of a file of the working tree.
ContentOid(path) == OidString(hash_bytes(RawBytes(rTree[path].content)))

\* The entries of the last status() with the given path and status.
Reported(path, status) == {i \in 1..Len(rLast.value) : rLast.value[i].path = path /\ rLast.value[i].status = status}

\* What status() is to report for a rename old -> new.
RenameReported(old, new) ==
    /\ Cardinality(Reported(new, StatusRenamed(old, new))) = 1
    /\ \A i \in Reported(new, StatusRenamed(old, new)) : rLast.value[i].node_id = Some(rIndex[old].node_id)
    /\ Reported(old, StatusDeleted) = {}
    /\ Reported(new, StatusUntracked) = {}

BridgePath == "t.txt"
Targets == {"p1", "p2"}
MaxGitCommits == 2

\* A Git commit object; its SHA stands for its content.  A tree is held by
\* value: path -> [content, mode].
GitCommitObj(tree, parents, message, author, time) == [tree |-> tree, parents |-> parents, message |-> message, author |-> author, time |-> time]
GitShaOf(commit) == [sha |-> commit]

\* git2::Repository::init on an empty path: no object, HEAD on an unborn branch.
EmptyGitRepo == [commits |-> {}, refs |-> NoFiles, head |-> <<"refs/heads", "master">>]

\* The commit HEAD resolves to, None on an unborn branch.
GitHead(repo) == IF repo.head \in DOMAIN repo.refs THEN Some(repo.refs[repo.head]) ELSE None

\* Repository::commit: the object is written; with update_ref the ref moves.
git_commit(repo, update_ref, commit) ==
    [repo EXCEPT !.commits = @ \cup {commit},
                 !.refs = IF update_ref # None THEN fs_write(@, Unwrap(update_ref), GitShaOf(commit)) ELSE @]

\* revwalk from a commit with Sort::TOPOLOGICAL | Sort::REVERSE, for the
\* single-parent histories made here: the root first.
RECURSIVE Revwalk(_)
Revwalk(sha) == IF sha.sha.parents = <<>> THEN <<sha>> ELSE Revwalk(sha.sha.parents[1]) \o <<sha>>

\* MappingDatabase::insert_mapping: INSERT OR REPLACE on the key git_sha.
insert_mapping(db, git_sha, wind_oid) == fs_write(db, git_sha, wind_oid)

\* A get_wind_oid that finds no row.
get_wind_oid_NoRow(db, git_sha) == None

\* A get_git_sha that finds no row.
get_git_sha_NoRow(db, wind_oid) == None

\* MappingDatabase::get_wind_oid and get_git_sha.
get_wind_oid(db, git_sha) == IF git_sha \in DOMAIN db THEN Some(db[git_sha]) ELSE None
get_git_sha(db, wind_oid) == IF \E s \in DOMAIN db : db[s] = wind_oid THEN Some(CHOOSE s \in DOMAIN db : db[s] = wind_oid) ELSE None

\* MappingDatabase::get_node_id and get_next_node_id.
get_node_id(nodes, path) == IF \E n \in DOMAIN nodes : nodes[n] = path THEN Some(CHOOSE n \in DOMAIN nodes : nodes[n] = path) ELSE None
get_next_node_id(nodes) == IF DOMAIN nodes = {} THEN 1 ELSE 1 + CHOOSE n \in DOMAIN nodes : \A k \in DOMAIN nodes : k <= n

\* git2::Delta of a path between the first parent's tree and the commit's
\* tree (no rename detection is asked of the diff).
DeltaStatus(tree, parent_tree, path) ==
    IF path \notin DOMAIN parent_tree THEN "Added"
    ELSE IF path \notin DOMAIN tree THEN "Deleted"
    ELSE IF tree[path] # parent_tree[path] THEN "Modified"
    ELSE "Unmodified"

\* FileOp {op_type, path, node_id} of the importer (create_file_op).
FileOp(op_type, path, node_id) == [op_type |-> op_type, path |-> path, node_id |-> node_id]

\* GitImporter::extract_ops_from_trees: the loop over the deltas.  An Added
\* path takes the NodeID its path is mapped to, else the next NodeID, which
\* is mapped to it; an edited or deleted path takes the NodeID of its path.
RECURSIVE extract_ops_from_trees(_, _, _, _, _)
extract_ops_from_trees(acc, tree, parent_tree, deltas, i) ==
    IF i > Len(deltas) THEN acc
    ELSE LET path == deltas[i]
             status == DeltaStatus(tree, parent_tree, path)
             node_id == get_node_id(acc.nodes, path)
             new_id == get_next_node_id(acc.nodes)
         IN  IF status = "Added" /\ node_id = None
             THEN extract_ops_from_trees([nodes |-> fs_write(acc.nodes, new_id, path), ops |-> Append(acc.ops, FileOp("Add", path, Some(new_id)))],
                                         tree, parent_tree, deltas, i + 1)
             ELSE IF status = "Added"
             THEN extract_ops_from_trees([acc EXCEPT !.ops = Append(@, FileOp("Add", path, node_id))], tree, parent_tree, deltas, i + 1)
             ELSE IF status = "Modified"
             THEN extract_ops_from_trees([acc EXCEPT !.ops = Append(@, FileOp("Edit", path, node_id))], tree, parent_tree, deltas, i + 1)
             ELSE IF status = "Deleted"
             THEN extract_ops_from_trees([acc EXCEPT !.ops = Append(@, FileOp("Delete", path, node_id))], tree, parent_tree, deltas, i + 1)
             ELSE extract_ops_from_trees(acc, tree, parent_tree, deltas, i + 1)

\* format!("w{}", oid): the engine OID the importer gives a Git commit.
ImportedOid(sha) == [w |-> sha]

\* GitImporter::import_all, the loop over the revwalk: a commit without a
\* row gets the row git_sha -> "w<sha>" and its node mappings, and its
\* changeset {oid, parent, ops} is pushed on the Vec returned.
RECURSIVE ImportLoop(_, _, _)
ImportLoop(acc, oids, i) ==
    IF i > Len(oids) THEN acc
    ELSE IF get_wind_oid(acc.db, oids[i]) # None THEN ImportLoop(acc, oids, i + 1)
    ELSE LET commit == oids[i].sha
             parent_tree == IF commit.parents = <<>> THEN NoFiles ELSE commit.parents[1].sha.tree
             parent_wind_oid == IF commit.parents = <<>> THEN None ELSE get_wind_oid(acc.db, commit.parents[1])
             e == extract_ops_from_trees([nodes |-> acc.nodes, ops |-> <<>>], commit.tree, parent_tree, PathsIn(DOMAIN commit.tree \cup DOMAIN parent_tree, 1), 1)
         IN  ImportLoop([db |-> insert_mapping(acc.db, oids[i], ImportedOid(oids[i])),
                         nodes |-> e.nodes,
                         changesets |-> Append(acc.changesets, [oid |-> ImportedOid(oids[i]), parent |-> parent_wind_oid, ops |-> e.ops]),
                         imported |-> acc.imported + 1],
                        oids, i + 1)

\* GitImporter::import_all: push_head fails on an unborn HEAD.
import_all(repo, db, nodes) ==
    IF GitHead(repo) = None THEN [db |-> db, nodes |-> nodes, changesets |-> <<>>, value |-> Err("reference not found")]
    ELSE LET r == ImportLoop([db |-> db, nodes |-> nodes, changesets |-> <<>>, imported |-> 0], Revwalk(Unwrap(GitHead(repo))), 1)
         IN  [db |-> r.db, nodes |-> r.nodes, changesets |-> r.changesets, value |-> Ok(r.imported)]

\* No call on the handle is in progress.
Idle == xp.phase = "idle"

\* The user writes the file and commits it with git in the repository
\* directory.
GitCommit(content) ==
    /\ Idle
    /\ Cardinality(gitSrc.commits) < MaxGitCommits
    /\ rTree' = fs_write(rTree, BridgePath, WFile(content, now))
    /\ gitSrc' = git_commit(gitSrc, Some(gitSrc.head),
                            GitCommitObj((BridgePath :> [content |-> content, mode |-> 33188]),
                                         IF GitHead(gitSrc) = None THEN <<>> ELSE <<Unwrap(GitHead(gitSrc))>>,
                                         "Test commit", <<"Test User", "test@example.com">>, now))
    /\ rLast' = NoResult
    /\ UNCHANGED <<rObjects, rIndex, now, rRefs, rHeadFile, rOpen, rCurrent, rCommits, rMoved, gTargets, bMap, bNodes, xp, uuids, mergeVars, storeVars, imps, compVars>>

\* UnifiedRepository::import_git(dir) on a directory without a handle: the
\* .wind directory and bridge.db are made, the history imported, and the
\* repository opened: current_branch is what .wind/HEAD holds.
ImportGit ==
    /\ ~rOpen
    /\ LET r == import_all(gitSrc, bMap, bNodes)
       IN  /\ bMap' = r.db
           /\ bNodes' = r.nodes
           /\ rOpen' = IsOk(r.value)
           /\ rCurrent' = IF IsOk(r.value) THEN rHeadFile ELSE rCurrent
           /\ rLast' = [result |-> "import_git", value |-> r.value]
    /\ UNCHANGED <<rObjects, rIndex, rTree, now, rRefs, rHeadFile, rCommits, rMoved, gitSrc, gTargets, xp, uuids, mergeVars, storeVars, imps, compVars>>

\* repo.sync_with_git()
SyncWithGit ==
    /\ rOpen
    /\ Idle
    /\ LET r == import_all(gitSrc, bMap, bNodes)
       IN  /\ bMap' = r.db
           /\ bNodes' = r.nodes
           /\ rLast' = [result |-> "sync_with_git", value |-> r.value]
    /\ UNCHANGED <<rObjects, rIndex, rTree, now, rRefs, rHeadFile, rOpen, rCurrent, rCommits, rMoved, gitSrc, gTargets, xp, uuids, mergeVars, storeVars, imps, compVars>>


\* path_str.starts_with(".git") || path_str.starts_with(".wind"), on Paths.
Filtered(path) == path \in {".gitignore", ".windignore"}

\* entry.permissions & 0o111 != 0
Executable(perm) == (perm \div 64) % 2 = 1 \/ (perm \div 8) % 2 = 1 \/ perm % 2 = 1

\* path.split('/') on Paths.
Split(path) == IF path = "d/e.txt" THEN <<"d", "e.txt">> ELSE IF path = "d/f.txt" THEN <<"d", "f.txt">> ELSE <<path>>

\* A Git tree is a map from names to blobs [content, mode] and to subtrees
\* [tree, mode = 040000].  TreeBuilder::insert replaces the entry of a name.
TreeMode == 16384
builder_insert(builder, name, entry) == fs_write(builder, name, entry)

\* GitExporter::add_nested_path: the blob is put under the directory
\* parts[1], whose subtree is carried on when the builder holds a tree of
\* that name and started empty otherwise.
RECURSIVE add_nested_path(_, _, _)
add_nested_path(builder, parts, blob) ==
    IF Len(parts) = 1 THEN builder_insert(builder, parts[1], blob)
    ELSE LET dir_name == parts[1]
             existing_tree == IF dir_name \in DOMAIN builder /\ builder[dir_name].mode = TreeMode THEN builder[dir_name].tree ELSE NoFiles
         IN  builder_insert(builder, dir_name, [tree |-> add_nested_path(existing_tree, Tail(parts), blob), mode |-> TreeMode])

\* The loop of build_git_tree over the entries that are not skipped, in the
\* BTreeMap's path order.
RECURSIVE BuildLoop(_, _, _, _, _)
BuildLoop(builder, dir, manifest, kept, i) ==
    IF i > Len(kept) THEN builder
    ELSE LET path == kept[i]
             blob == [content |-> StoreReadFrom(dir, manifest[path].oid).ok.bytes,
                      mode |-> IF Executable(manifest[path].permissions) THEN 33261 ELSE 33188]
         IN  BuildLoop(IF Len(Split(path)) > 1 THEN add_nested_path(builder, Split(path), blob) ELSE builder_insert(builder, path, blob),
                       dir, manifest, kept, i + 1)

\* GitExporter::build_git_tree: the blob of every entry is read from the
\* engine's store; the mode is 100755 or 100644.
build_git_tree(dir, manifest) ==
    LET kept == {p \in DOMAIN manifest : ~Filtered(p)}
    IN  IF \E p \in kept : ~IsOk(StoreReadFrom(dir, manifest[p].oid)) THEN Err("Object not found")
        ELSE Ok(BuildLoop(NoFiles, dir, manifest, PathsIn(kept, 1), 1))

\* parse_signature: name and e-mail address from "name <email>";
\* Signature::new refuses an empty name.
parse_signature(author) ==
    IF author = "" THEN Err("Signature cannot have an empty name or email")
    ELSE Ok(<<author, "unknown@localhost">>)

RECURSIVE export_changeset(_, _, _, _)
RECURSIVE resolve_parent_commits(_, _, _, _, _, _)

\* GitExporter::resolve_parent_commits: the SHA of every parent that has a
\* row, a parent without one being exported first.
resolve_parent_commits(repo, db, dir, parents, i, parent_oids) ==
    IF i > Len(parents) THEN [repo |-> repo, db |-> db, value |-> Ok(parent_oids)]
    ELSE IF get_git_sha(db, parents[i]) # None
         THEN resolve_parent_commits(repo, db, dir, parents, i + 1, Append(parent_oids, Unwrap(get_git_sha(db, parents[i]))))
         ELSE LET e == export_changeset(repo, db, dir, parents[i])
              IN  IF ~IsOk(e.value) THEN e
                  ELSE resolve_parent_commits(e.repo, e.db, dir, parents, i + 1,
                                              IF get_git_sha(e.db, parents[i]) # None THEN Append(parent_oids, Unwrap(get_git_sha(e.db, parents[i]))) ELSE parent_oids)

\* parent_oids.iter().filter_map(|oid| git_repo.find_commit(*oid).ok())
FoundCommits(repo, parent_oids) == SelectSeq(parent_oids, LAMBDA oid : oid.sha \in repo.commits)

\* GitExporter::export_changeset: the Git repository and the database
\* afterwards, and the SHA returned.
export_changeset(repo, db, dir, wind_oid) ==
    IF get_git_sha(db, wind_oid) # None THEN [repo |-> repo, db |-> db, value |-> Ok(Unwrap(get_git_sha(db, wind_oid)))]
    ELSE LET changeset == LoadChangeset(dir, wind_oid)
             manifest == load_manifest(dir, changeset.ok.root_manifest)
             tree == build_git_tree(dir, manifest.ok)
             r == resolve_parent_commits(repo, db, dir, changeset.ok.parents, 1, <<>>)
             sig == parse_signature(changeset.ok.author)
             commit == GitCommitObj(tree.ok, FoundCommits(r.repo, r.value.ok), changeset.ok.commit_message, sig.ok, changeset.ok.timestamp)
         IN  IF ~IsOk(changeset) THEN [repo |-> repo, db |-> db, value |-> changeset]
             ELSE IF ~IsOk(manifest) THEN [repo |-> repo, db |-> db, value |-> manifest]
             ELSE IF ~IsOk(tree) THEN [repo |-> repo, db |-> db, value |-> tree]
             ELSE IF ~IsOk(r.value) THEN r
             ELSE IF ~IsOk(sig) THEN [repo |-> r.repo, db |-> r.db, value |-> sig]
             ELSE [repo |-> git_commit(r.repo, None, commit), db |-> insert_mapping(r.db, GitShaOf(commit), wind_oid), value |-> Ok(GitShaOf(commit))]

\* GitExporter::export_all, the loop over the collected changesets.
RECURSIVE ExportLoop(_, _, _, _, _)
ExportLoop(repo, db, dir, changesets, i) ==
    IF i > Len(changesets) THEN [repo |-> repo, db |-> db, value |-> Ok(Len(changesets))]
    ELSE LET e == export_changeset(repo, db, dir, changesets[i])
         IN  IF ~IsOk(e.value) THEN e ELSE ExportLoop(e.repo, e.db, dir, changesets, i + 1)

\* GitExporter::update_git_branch: the branch and HEAD are set to the SHA
\* of the head's row; a reference to a commit the repository does not hold
\* is refused.
update_git_branch(repo, db, branch_name, wind_head_oid) ==
    IF get_git_sha(db, wind_head_oid) = None THEN [repo |-> repo, value |-> Err("not exported yet")]
    ELSE IF Unwrap(get_git_sha(db, wind_head_oid)).sha \notin repo.commits THEN [repo |-> repo, value |-> Err("target OID for the reference doesn't exist")]
    ELSE [repo |-> [repo EXCEPT !.refs = fs_write(@, <<"refs/heads", branch_name>>, Unwrap(get_git_sha(db, wind_head_oid))),
                                !.head = <<"refs/heads", branch_name>>],
          value |-> Ok(TRUE)]

\* repo.export_git(target) is called: git init on the target; with a current
\* branch that has a head, export_all starts collecting from the head.
ExportGit(target) ==
    /\ rOpen
    /\ Idle
    /\ gTargets' = IF target \in DOMAIN gTargets THEN gTargets ELSE fs_write(gTargets, target, EmptyGitRepo)
    /\ LET branch == read_branch(rRefs, Unwrap(rCurrent))
       IN  IF rCurrent = None THEN
               /\ rLast' = [result |-> "export_git", target |-> target, value |-> Ok(None)]
               /\ xp' = xp
           ELSE IF ~IsOk(branch) THEN
               /\ rLast' = [result |-> "export_git", target |-> target, value |-> branch]
               /\ xp' = xp
           ELSE IF branch.ok.head = EmptyString THEN
               /\ rLast' = [result |-> "export_git", target |-> target, value |-> Ok(None)]
               /\ xp' = xp
           ELSE
               /\ rLast' = NoResult
               /\ xp' = [phase |-> "collect", target |-> target, name |-> branch.ok.name, head |-> branch.ok.head,
                         stack |-> <<branch.ok.head>>, visited |-> {}, result |-> <<>>, current_oid |-> None]
    /\ UNCHANGED <<rObjects, rIndex, rTree, now, rRefs, rHeadFile, rOpen, rCurrent, rCommits, rMoved, gitSrc, bMap, bNodes, uuids, mergeVars, storeVars, imps, compVars>>

\* collect_changesets_in_order: `while let Some(current_oid) = stack.pop()`.
CollectPop ==
    /\ xp.phase = "collect"
    /\ xp.current_oid = None
    /\ xp.stack # <<>>
    /\ xp' = [xp EXCEPT !.current_oid = Some(xp.stack[Len(xp.stack)]), !.stack = SubSeq(xp.stack, 1, Len(xp.stack) - 1)]
    /\ UNCHANGED <<repoVars, gitSrc, gTargets, bMap, bNodes, uuids, mergeVars, storeVars, imps, compVars>>

\* collect_changesets_in_order: the body of the loop for the popped oid.
CollectVisit ==
    /\ xp.phase = "collect"
    /\ xp.current_oid # None
    /\ LET current_oid == Unwrap(xp.current_oid)
           changeset == LoadChangeset(rObjects, current_oid)
           parents == changeset.ok.parents
       IN  IF current_oid \in xp.visited THEN
               /\ xp' = [xp EXCEPT !.current_oid = None]
               /\ rLast' = rLast
           ELSE IF get_git_sha(bMap, current_oid) # None THEN
               /\ xp' = [xp EXCEPT !.current_oid = None, !.visited = @ \cup {current_oid}]
               /\ rLast' = rLast
           ELSE IF ~IsOk(changeset) THEN
               /\ xp' = [phase |-> "idle"]
               /\ rLast' = [result |-> "export_git", target |-> xp.target, value |-> changeset]
           ELSE IF \A i \in 1..Len(parents) : get_git_sha(bMap, parents[i]) # None THEN
               /\ xp' = [xp EXCEPT !.current_oid = None, !.result = Append(@, current_oid), !.visited = @ \cup {current_oid}]
               /\ rLast' = rLast
           ELSE
               /\ xp' = [xp EXCEPT !.current_oid = None,
                                   !.stack = Append(@, current_oid) \o SelectSeq(parents, LAMBDA parent : parent \notin xp.visited)]
               /\ rLast' = rLast
    /\ UNCHANGED <<rObjects, rIndex, rTree, now, rRefs, rHeadFile, rOpen, rCurrent, rCommits, rMoved, gitSrc, gTargets, bMap, bNodes, uuids, mergeVars, storeVars, imps, compVars>>

\* The stack is empty: export_all exports the collected changesets in order
\* and returns their number, update_git_branch moves the branch and HEAD of
\* the target, and export_git returns.
ExportFinish ==
    /\ xp.phase = "collect"
    /\ xp.current_oid = None
    /\ xp.stack = <<>>
    /\ LET e == ExportLoop(gTargets[xp.target], bMap, rObjects, xp.result, 1)
           u == update_git_branch(e.repo, e.db, xp.name, xp.head)
       IN  /\ bMap' = e.db
           /\ gTargets' = [gTargets EXCEPT ![xp.target] = IF IsOk(e.value) THEN u.repo ELSE e.repo]
           /\ rLast' = [result |-> "export_git", target |-> xp.target,
                        value |-> IF ~IsOk(e.value) THEN e.value ELSE IF ~IsOk(u.value) THEN u.value ELSE Ok(Some(e.value.ok))]
    /\ xp' = [phase |-> "idle"]
    /\ UNCHANGED <<rObjects, rIndex, rTree, now, rRefs, rHeadFile, rOpen, rCurrent, rCommits, rMoved, gitSrc, bNodes, uuids, mergeVars, storeVars, imps, compVars>>

\* A directory where git init has run, and either UnifiedRepository::init
\* has run too and the caller holds its handle, or there is no .wind yet.
InitBridge ==
    /\ \/ /\ rRefs = (Uuid(1) :> Branch(Uuid(1), "main", EmptyString))
          /\ rHeadFile = Some(Uuid(1))
          /\ rCurrent = Some(Uuid(1))
          /\ rOpen = TRUE
          /\ rTree = (".windignore" :> WFile(default_content, 0))
          /\ uuids = 1
       \/ /\ rRefs = NoFiles
          /\ rHeadFile = None
          /\ rCurrent = None
          /\ rOpen = FALSE
          /\ rTree = NoFiles
          /\ uuids = 0
    /\ rObjects = NoFiles
    /\ rIndex = NoFiles
    /\ now = 0
    /\ rCommits = <<>>
    /\ rMoved = None
    /\ rLast = NoResult
    /\ gitSrc = EmptyGitRepo
    /\ gTargets = NoFiles
    /\ bMap = NoFiles
    /\ bNodes = NoFiles
    /\ xp = [phase |-> "idle"]
    /\ imps = NoImports
    /\ CompIdle
    /\ MergeIdle
    /\ StoreIdle

NextBridge ==
    \/ \E content \in RepoContents : GitCommit(content)
    \/ ImportGit
    \/ SyncWithGit
    \/ \E content \in RepoContents : rOpen /\ Idle /\ WriteFile(BridgePath, content)
    \/ rOpen /\ Idle /\ Add(BridgePath)
    \/ rOpen /\ Idle /\ Commit
    \/ \E target \in Targets : ExportGit(target)
    \/ CollectPop
    \/ CollectVisit
    \/ ExportFinish

SpecBridge == InitBridge /\ [][NextBridge]_vars

\* The exporter on the histories of one handle: commits and exports only.
NextExport ==
    \/ \E content \in RepoContents : Idle /\ WriteFile(BridgePath, content)
    \/ Idle /\ Add(BridgePath)
    \/ Idle /\ Commit
    \/ \E target \in Targets : ExportGit(target)
    \/ CollectPop
    \/ CollectVisit
    \/ ExportFinish

\* The directory where UnifiedRepository::init has run.
InitExport == InitBridge /\ rOpen = TRUE

\* The loop of collect_changesets_in_order runs on once entered.
SpecBridgeFair == InitExport /\ [][NextExport]_vars /\ WF_xp(CollectPop \/ CollectVisit)


(***************************************************************************)
(* GitImporter on its own: Git histories in which the file comes and goes, *)
(* imported by import_all at any time.                                     *)
(***************************************************************************)
\* Commits made through Git here, and the trees they take.
MaxImportCommits == 3
BridgeTrees == {NoFiles} \cup {(BridgePath :> [content |-> c, mode |-> 33188]) : c \in RepoContents}

\* The user makes the working tree hold `tree` (writes or removes the file)
\* and commits it with git.
GitCommitTree(tree) ==
    /\ Cardinality(gitSrc.commits) < MaxImportCommits
    /\ rTree' = [p \in DOMAIN tree |-> WFile(tree[p].content, now)]
    /\ gitSrc' = git_commit(gitSrc, Some(gitSrc.head),
                            GitCommitObj(tree, IF GitHead(gitSrc) = None THEN <<>> ELSE <<Unwrap(GitHead(gitSrc))>>,
                                         "Test commit", <<"Test User", "test@example.com">>, now))
    /\ rLast' = NoResult
    /\ UNCHANGED <<rObjects, rIndex, now, rRefs, rHeadFile, rOpen, rCurrent, rCommits, rMoved, gTargets, bMap, bNodes, xp, uuids, mergeVars, storeVars, imps, compVars>>

\* GitImporter::new(.git, bridge.db) followed by importer.import_all().
ImportAll ==
    /\ LET r == import_all(gitSrc, bMap, bNodes)
       IN  /\ bMap' = r.db
           /\ bNodes' = r.nodes
           /\ rLast' = [result |-> "import_all", value |-> IF IsOk(r.value) THEN Ok(r.changesets) ELSE r.value]
    /\ UNCHANGED <<rObjects, rIndex, rTree, now, rRefs, rHeadFile, rOpen, rCurrent, rCommits, rMoved, gitSrc, gTargets, xp, uuids, mergeVars, storeVars, imps, compVars>>

\* The directory where git init has run and nothing else.
InitImport == InitBridge /\ rOpen = FALSE

NextImport ==
    \/ \E tree \in BridgeTrees : GitCommitTree(tree)
    \/ ImportAll

SpecImport == InitImport /\ [][NextImport]_vars

\* The Add ops of the changesets an import_all returned: each is the birth
\* of a logical file (the diff reports no renames).
AddOps(changesets) == {ij \in (1..Len(changesets)) \X (1..MaxImportCommits) : ij[2] <= Len(changesets[ij[1]].ops) /\ changesets[ij[1]].ops[ij[2]].op_type = "Add"}

\* C15: every Added file of an imported history is bound to a NodeID, and
\* two distinct Added files (two Add ops, such as the file of a path and the
\* new file added at that path after it was deleted) never get one NodeID.
C15_ImportedNodeIdsAreFresh ==
    (rLast.result = "import_all" /\ IsOk(rLast.value)) =>
        \A a, b \in AddOps(rLast.value.ok) :
            /\ rLast.value.ok[a[1]].ops[a[2]].node_id # None
            /\ a # b => rLast.value.ok[a[1]].ops[a[2]].node_id # rLast.value.ok[b[1]].ops[b[2]].node_id
(***************************************************************************)
(* Claims about the Git bridge.                                            *)
(***************************************************************************)
\* C7: after sync_with_git or import_git has returned, every Git commit
\* reachable from HEAD has a row in the bridge, and the engine OID of its row
\* resolves to a changeset in the engine's object store.
C7_ImportedCommitsHaveChangesets ==
    (rLast.result \in {"import_git", "sync_with_git"} /\ IsOk(rLast.value)) =>
        \A i \in 1..Len(Revwalk(Unwrap(GitHead(gitSrc)))) :
            LET git_sha == Revwalk(Unwrap(GitHead(gitSrc)))[i]
            IN  /\ get_wind_oid(bMap, git_sha) # None
                /\ IsOk(LoadChangeset(rObjects, Unwrap(get_wind_oid(bMap, git_sha))))

\* C8: export_git into a fresh path, on the handle import_git returned for
\* a Git history, leaves a Git repository whose HEAD is a commit with the
\* tree of the imported HEAD: t.txt with its content and mode 100644.
C8_GitRoundTrip ==
    (/\ rLast.result = "export_git"
     /\ rHeadFile = None
     /\ GitHead(gitSrc) # None
     /\ get_wind_oid(bMap, Unwrap(GitHead(gitSrc))) # None)
    => /\ IsOk(rLast.value)
       /\ GitHead(gTargets[rLast.target]) # None
       /\ Unwrap(GitHead(gTargets[rLast.target])).sha.tree = Unwrap(GitHead(gitSrc)).sha.tree

\* C9: the Git commit written for a changeset has as parents exactly the
\* SHAs the bridge maps the changeset's parents to, in order, none dropped.
C9_ExportedParents ==
    \A target \in DOMAIN gTargets :
        \A commit \in gTargets[target].commits :
            LET wind_oid == get_wind_oid(bMap, GitShaOf(commit))
                changeset == LoadChangeset(rObjects, Unwrap(wind_oid))
            IN  (wind_oid # None /\ IsOk(changeset)) =>
                    /\ Len(commit.parents) = Len(changeset.ok.parents)
                    /\ \A i \in 1..Len(changeset.ok.parents) :
                        /\ get_git_sha(bMap, changeset.ok.parents[i]) # None
                        /\ i <= Len(commit.parents) => commit.parents[i] = Unwrap(get_git_sha(bMap, changeset.ok.parents[i]))

\* C10: export_all terminates: the loop that collects the changesets to
\* export, once entered, comes to its end (the stack is empty) or returns an
\* error.
C10_ExportAllTerminates == (xp.phase = "collect") ~> (xp.phase = "idle" \/ (xp.stack = <<>> /\ xp.current_oid = None))


(***************************************************************************)
(* Claims about what a clean merge leaves (checked under SpecRepo).        *)
(***************************************************************************)
\* The changesets of the object store that `id` identifies, as the OID of
\* the stored object or as the changeset's own id.
ChangesetsNamed(id) ==
    {rObjects[f].zstd.changeset : f \in {g \in DOMAIN rObjects :
        /\ "zstd" \in DOMAIN rObjects[g]
        /\ "changeset" \in DOMAIN rObjects[g].zstd
        /\ (OidString([blake3 |-> g.objects]) = id \/ rObjects[g].zstd.changeset.id = id)}}

\* C11: when merge returns Clean{new_changeset_id}, the merged manifest and
\* the merge changeset have been written: new_changeset_id identifies a
\* changeset readable from the object store, whose root manifest is readable.
C11_CleanMergeIsMaterialised ==
    (rLast.result = "merge" /\ IsOk(rLast.value) /\ rLast.value.ok.result.result = "Clean") =>
        \E cs \in ChangesetsNamed(rLast.value.ok.result.new_changeset_id) :
            IsOk(load_manifest(rObjects, cs.root_manifest))

\* C12: when the head (ours) and other (theirs) have the same manifest,
\* merge returns Clean and the manifest of the changeset it names is ours'.
C12_SameManifestsMergeToOurs ==
    (rLast.result = "merge" /\ IsOk(rLast.value) /\ ManifestOf(HeadOid) = ManifestOf(rLast.other)) =>
        /\ rLast.value.ok.result.result = "Clean"
        /\ \E cs \in ChangesetsNamed(rLast.value.ok.result.new_changeset_id) :
            load_manifest(rObjects, cs.root_manifest) = Ok(ManifestOf(HeadOid))

\* The half of C12 that is about the result alone, over all manifests: with
\* ours = theirs merge returns Clean, and the changes it computed only delete
\* NodeIDs neither ours nor theirs holds.
SameManifestsMergeClean ==
    (mCalled /\ mOurs = mTheirs) =>
        /\ mResult.result = "Clean"
        /\ \A n \in DOMAIN mChanges : mChanges[n] = Deleted /\ OidOfNode(mOurs, n) = None

(***************************************************************************)
(* Claims about the changesets commit writes and the path index (checked   *)
(* under SpecRepo).                                                        *)
(***************************************************************************)
\* The entries a manifest holds for a NodeID, by path.
EntriesOfNode(m, n) == [p \in {q \in DOMAIN m : m[q].node_id = n} |-> m[p]]

\* The manifest of the first parent of a changeset, empty for a root.
ParentManifest(cs) == IF cs.parents = <<>> THEN EmptyManifest ELSE ManifestOf(cs.parents[1])

\* C13: the root manifest of every changeset commit has produced is the
\* parent's manifest with the changeset's changes applied: a NodeID with an
\* Added or Modified change has the change's OID, a NodeID with a Deleted
\* change has no entry, and a NodeID without a change has the parent's entry.
C13_ManifestIsParentPlusChanges ==
    \A i \in 1..Len(rCommits) :
        LET cs == LoadChangeset(rObjects, rCommits[i]).ok
            m == ManifestOf(rCommits[i])
            pm == ParentManifest(cs)
        IN  \A n \in {m[p].node_id : p \in DOMAIN m} \cup {pm[p].node_id : p \in DOMAIN pm} \cup DOMAIN cs.changes :
                IF n \in DOMAIN cs.changes
                THEN IF cs.changes[n] = Deleted THEN EntryOid(m, n) = None
                     ELSE EntryOid(m, n) = Some(cs.changes[n].oid)
                ELSE EntriesOfNode(m, n) = EntriesOfNode(pm, n)


\* C14: the path index (a table keyed by path) never holds one NodeID at two
\* paths, and every step keeps it so: a path that stays indexed keeps its
\* NodeID, re-added or not, and a path that becomes indexed gets a NodeID no
\* entry held before.
C14_IndexNodeIdsUnique ==
    /\ [](\A p, q \in DOMAIN rIndex : rIndex[p].node_id = rIndex[q].node_id => p = q)
    /\ [][\A p \in DOMAIN rIndex' :
            IF p \in DOMAIN rIndex THEN rIndex'[p].node_id = rIndex[p].node_id
            ELSE \A q \in DOMAIN rIndex : rIndex'[p].node_id # rIndex[q].node_id]_vars

\* a.txt was committed, then re-added with another content, and b.txt was
\* added next to it: a.txt has the NodeID of the commit, b.txt another one.
C14_Witness ==
    /\ Len(rCommits) >= 1
    /\ "a.txt" \in DOMAIN ManifestOf(rCommits[1])
    /\ {"a.txt", "b.txt"} \subseteq DOMAIN rIndex
    /\ rIndex["a.txt"].oid # ManifestOf(rCommits[1])["a.txt"].oid
    /\ rIndex["a.txt"].node_id = ManifestOf(rCommits[1])["a.txt"].node_id
    /\ "b.txt" \notin DOMAIN ManifestOf(rCommits[1])
    /\ rIndex["b.txt"].node_id # rIndex["a.txt"].node_id

(***************************************************************************)
(* Claims about concurrent callers of the store (checked under SpecConc)   *)
(* and about repeated and verified access (SpecStore, SpecTamper).         *)
(***************************************************************************)
\* A writer has entered its call; the file its call is about.
Called(w) == sProcs[w].pc # "idle"
PathOf(w) == object_path(hash_bytes(JobBytes(sProcs[w].job)))

\* C16: once every writer of an object has returned, each has returned the
\* OID of the content and the object's file is the complete encoding of the
\* content, in whatever order their steps were taken; and a step of a
\* writer changes no file but the one of its own OID.
C16_ConcurrentWritersConverge ==
    /\ [](\A w \in Writers :
            (Called(w) /\ \A v \in Writers : (Called(v) /\ PathOf(v) = PathOf(w)) => sProcs[v].pc = "done") =>
                /\ sProcs[w].ret = Some(OidReturned(sProcs[w].job))
                /\ \A v \in Writers : (Called(v) /\ sProcs[v].job = sProcs[w].job) => sProcs[v].ret = sProcs[w].ret
                /\ PathOf(w) \in DOMAIN sObjects
                /\ sObjects[PathOf(w)] = zstd_encode(JobBytes(sProcs[w].job)))
    /\ [][\A f \in DOMAIN sObjects' :
            (f \notin DOMAIN sObjects \/ sObjects'[f] # sObjects[f]) =>
                \E w \in Writers : sProcs'[w] # sProcs[w] /\ Called(w) /\ PathOf(w) = f]_vars

\* Both writers were given the same buffer, both found no file and wrote
\* every unit of the frame, and both have returned.
C16_Witness ==
    /\ \A w \in Writers : Called(w) /\ sProcs[w].pc = "done" /\ sProcs[w].pos = FrameUnits
    /\ sProcs["w1"].job = sProcs["w2"].job
    /\ sProcs["w1"].job.op = "write"
    /\ sObjects[PathOf("w1")] = zstd_encode(JobBytes(sProcs["w1"].job))

\* C17: no partially written object is observable.  Whenever the file of an
\* object some writer was given exists, a read of its OID returns the
\* complete content; a stopped writer leaves no file, unless the complete
\* one; and every read of an OID a call returned succeeds.
C17_NoPartialObjectObservable ==
    /\ \A w \in Writers : Called(w) =>
        LET job == sProcs[w].job
        IN  IF job.op = "write"
            THEN StoreExists(sObjects, OidReturned(job)) => StoreReadFrom(sObjects, OidReturned(job)) = Ok(job.data)
            ELSE PathOf(w) \in DOMAIN sObjects => ReadObjectFrom(sObjects, OidReturned(job)) = Ok(job.obj)
    /\ \A w \in Writers : sProcs[w].pc = "stopped" =>
        (PathOf(w) \notin DOMAIN sObjects \/ sObjects[PathOf(w)] = zstd_encode(JobBytes(sProcs[w].job)))
    /\ sLast.result = "read" => IsOk(sLast.value)


\* C18: reads verify the address: what read(oid) or read_object(oid)
\* returns hashes to oid; on an object file whose bytes do not hash to oid
\* the read fails.
C18_ReadsVerifyAddress ==
    /\ (sLast.result = "read" /\ IsOk(sLast.value)) => OidString(hash_bytes(sLast.value.ok)) = sLast.oid
    /\ (sLast.result = "read_object" /\ IsOk(sLast.value)) => hash_bytes(bincode_serialize(sLast.value.ok)) = sLast.oid

\* C19: writing an object the store already holds returns the OID the first
\* write returned and performs no file write: the directory is left as it
\* is, for write and for write_object.
C19_SecondWriteShortCircuits ==
    /\ [](\A i, j \in 1..Len(sReturned) : (i < j /\ sReturned[i].data = sReturned[j].data) =>
            (sReturned[j].oid = sReturned[i].oid /\ ~sReturned[j].written))
    /\ [](\A i, j \in 1..Len(sTyped) : (i < j /\ sTyped[i].obj = sTyped[j].obj) =>
            (sTyped[j].oid = sTyped[i].oid /\ ~sTyped[j].written))
    /\ [][(/\ Len(sReturned') > Len(sReturned)
           /\ \E i \in 1..Len(sReturned) : sReturned[i].data = sReturned'[Len(sReturned')].data) => sObjects' = sObjects]_vars
    /\ [][(/\ Len(sTyped') > Len(sTyped)
           /\ \E i \in 1..Len(sTyped) : sTyped[i].obj = sTyped'[Len(sTyped')].obj) => sObjects' = sObjects]_vars

\* A non-empty buffer has been written twice: the first write wrote the
\* file, and the file is the frame of the buffer.
C19_Witness ==
    /\ Len(sReturned) = 2
    /\ sReturned[1].data = sReturned[2].data
    /\ Len(sReturned[1].data.bytes) > 0
    /\ sReturned[1].written
    /\ sObjects[object_path(hash_bytes(sReturned[2].data))] = zstd_encode(sReturned[2].data)


(***************************************************************************)
(* GitExporter::export_changeset called on its own: the changesets of one  *)
(* handle, committed under any USER, exported one at a time in any order.  *)
(***************************************************************************)

\* The values of USER: a name, and the empty string.
Authors == {"user", ""}

\* A changeset OID no object of the store has.
MissingOid == OidString(hash_bytes(<<>>))

\* git2::Repository::init(target), GitExporter::new(target/.git, storage,
\* bridge.db) and exporter.export_changeset(wind_oid).
ExportChangeset(target, wind_oid) ==
    /\ rOpen
    /\ Idle
    /\ LET repo == IF target \in DOMAIN gTargets THEN gTargets[target] ELSE EmptyGitRepo
           e == export_changeset(repo, bMap, rObjects, wind_oid)
       IN  /\ gTargets' = fs_write(gTargets, target, e.repo)
           /\ bMap' = e.db
           /\ rLast' = [result |-> "export_changeset", wind_oid |-> wind_oid, value |-> e.value, before |-> bMap]
    /\ UNCHANGED <<rObjects, rIndex, rTree, now, rRefs, rHeadFile, rOpen, rCurrent, rCommits, rMoved, gitSrc, bNodes, xp, uuids, mergeVars, storeVars, imps, compVars>>

NextExportOne ==
    \/ \E content \in RepoContents : WriteFile(BridgePath, content)
    \/ Add(BridgePath)
    \/ \E author \in Authors : CommitAs(author)
    \/ \E target \in Targets, wind_oid \in {rCommits[i] : i \in DOMAIN rCommits} \cup {MissingOid} : ExportChangeset(target, wind_oid)

SpecExportOne == InitExport /\ [][NextExportOne]_vars

\* C20: an export_changeset call that fails leaves the bridge's mapping
\* table exactly as it was when the call started.
C20_FailedExportLeavesMappingUnchanged ==
    (rLast.result = "export_changeset" /\ ~IsOk(rLast.value)) => bMap = rLast.before


\* C21: the SHA <-> OID mapping only grows and stays one-to-one: a row
\* (s, o) once inserted is there in every later state, with get_wind_oid(s)
\* = o and get_git_sha(o) = s, and no engine OID is mapped by two SHAs.
C21_MappingGrowsOneToOne ==
    /\ [](\A s, t \in DOMAIN bMap : bMap[s] = bMap[t] => s = t)
    /\ [][\A s \in DOMAIN bMap :
            /\ get_wind_oid(bMap', s) = Some(bMap[s])
            /\ get_git_sha(bMap', bMap[s]) = Some(s)]_vars


(***************************************************************************)
(* Two GitImporters at once on one bridge.db.  Every call of the           *)
(* MappingDatabase is one SQL statement, atomic in SQLite; the statements  *)
(* of the two import_all calls interleave in any order.                    *)
(***************************************************************************)

MaxConcCommits == 2
ImportPaths == {"a.txt", "b.txt"}

\* The trees the user commits with git: some of the files, one content.
ConcTrees == {[p \in S |-> [content |-> <<0>>, mode |-> 33188]] : S \in (SUBSET ImportPaths) \ {{}}}

\* diff.deltas(): the paths that differ between the two trees, in path order.
Deltas(tree, parent_tree) ==
    LET all == PathsIn(DOMAIN tree \cup DOMAIN parent_tree, 1)
    IN  SelectSeq(all, LAMBDA path : DeltaStatus(tree, parent_tree, path) # "Unmodified")

\* The importer's position once it is done with delta j - 1 of commit i.
AtDelta(rec) == IF rec.j > Len(rec.deltas) THEN [rec EXCEPT !.pc = "insert"] ELSE [rec EXCEPT !.pc = "delta"]

\* The importer's position once it is done with commit i - 1: the loop ends
\* and import_all returns Ok(changesets).
AtCommit(rec) == IF rec.i > Len(rec.oids) THEN [pc |-> "done", value |-> Ok(rec.changesets)] ELSE [rec EXCEPT !.pc = "check"]

\* GitImporter::new and the head of import_all: the revwalk is collected.
StartImport(p) ==
    /\ imps[p].pc = "idle"
    /\ imps' = [imps EXCEPT ![p] =
                    IF GitHead(gitSrc) = None THEN [pc |-> "done", value |-> Err("reference not found")]
                    ELSE AtCommit([pc |-> "check", oids |-> Revwalk(Unwrap(GitHead(gitSrc))), i |-> 1, changesets |-> <<>>])]
    /\ UNCHANGED <<gitSrc, gTargets, bMap, bNodes, xp, repoVars, uuids, mergeVars, storeVars, compVars>>

\* self.db.get_wind_oid(&git_sha): a commit that has a row is skipped.
CheckCommit(p) ==
    /\ imps[p].pc = "check"
    /\ LET rec == imps[p]
       IN  imps' = [imps EXCEPT ![p] =
                        IF get_wind_oid(bMap, rec.oids[rec.i]) # None THEN AtCommit([rec EXCEPT !.i = @ + 1])
                        ELSE [rec EXCEPT !.pc = "parent"]]
    /\ UNCHANGED <<gitSrc, gTargets, bMap, bNodes, xp, repoVars, uuids, mergeVars, storeVars, compVars>>

\* self.db.get_wind_oid(&parent_sha) for the first parent, and the diff of
\* the commit's tree against the first parent's.
LookupParent(p) ==
    /\ imps[p].pc = "parent"
    /\ LET rec == imps[p]
           commit == rec.oids[rec.i].sha
           parent_tree == IF commit.parents = <<>> THEN NoFiles ELSE commit.parents[1].sha.tree
       IN  imps' = [imps EXCEPT ![p] =
                        AtDelta([pc |-> "delta", oids |-> rec.oids, i |-> rec.i, changesets |-> rec.changesets,
                                 parent |-> IF commit.parents = <<>> THEN None ELSE get_wind_oid(bMap, commit.parents[1]),
                                 tree |-> commit.tree, parent_tree |-> parent_tree,
                                 deltas |-> Deltas(commit.tree, parent_tree), j |-> 1, ops |-> <<>>])]
    /\ UNCHANGED <<gitSrc, gTargets, bMap, bNodes, xp, repoVars, uuids, mergeVars, storeVars, compVars>>

\* self.db.get_node_id(&path) for the next delta: the op takes the NodeID
\* found; an Added path without a row goes on to get_next_node_id.
LookupNode(p) ==
    /\ imps[p].pc = "delta"
    /\ LET rec == imps[p]
           path == rec.deltas[rec.j]
           status == DeltaStatus(rec.tree, rec.parent_tree, path)
           node_id == get_node_id(bNodes, path)
           op_type == IF status = "Added" THEN "Add" ELSE IF status = "Modified" THEN "Edit" ELSE "Delete"
       IN  imps' = [imps EXCEPT ![p] =
                        IF status = "Added" /\ node_id = None THEN [rec EXCEPT !.pc = "next"]
                        ELSE AtDelta([rec EXCEPT !.ops = Append(@, FileOp(op_type, path, node_id)), !.j = @ + 1])]
    /\ UNCHANGED <<gitSrc, gTargets, bMap, bNodes, xp, repoVars, uuids, mergeVars, storeVars, compVars>>

\* self.db.get_next_node_id()
NextNodeId(p) ==
    /\ imps[p].pc = "next"
    /\ imps' = [imps EXCEPT ![p] = [pc |-> "bind", new_id |-> get_next_node_id(bNodes)] @@ imps[p]]
    /\ UNCHANGED <<gitSrc, gTargets, bMap, bNodes, xp, repoVars, uuids, mergeVars, storeVars, compVars>>

\* self.db.insert_node_mapping(&new_id, &path): INSERT OR REPLACE on the key
\* node_id; the Add op carries new_id.
insert_node_mapping(nodes, node_id, path) == fs_write(nodes, node_id, path)

BindNode(p) ==
    /\ imps[p].pc = "bind"
    /\ LET rec == imps[p]
           path == rec.deltas[rec.j]
           rest == [f \in DOMAIN rec \ {"new_id"} |-> rec[f]]
       IN  /\ bNodes' = insert_node_mapping(bNodes, rec.new_id, path)
           /\ imps' = [imps EXCEPT ![p] = AtDelta([rest EXCEPT !.ops = Append(@, FileOp("Add", path, Some(rec.new_id))), !.j = @ + 1])]
    /\ UNCHANGED <<gitSrc, gTargets, bMap, xp, repoVars, uuids, mergeVars, storeVars, compVars>>

\* self.db.insert_mapping(&git_sha, &wind_oid) and changesets.push.
InsertMapping(p) ==
    /\ imps[p].pc = "insert"
    /\ LET rec == imps[p]
           git_sha == rec.oids[rec.i]
       IN  /\ bMap' = insert_mapping(bMap, git_sha, ImportedOid(git_sha))
           /\ imps' = [imps EXCEPT ![p] =
                           AtCommit([pc |-> "check", oids |-> rec.oids, i |-> rec.i + 1,
                                     changesets |-> Append(rec.changesets, [oid |-> ImportedOid(git_sha), parent |-> rec.parent, ops |-> rec.ops])])]
    /\ UNCHANGED <<gitSrc, gTargets, bNodes, xp, repoVars, uuids, mergeVars, storeVars, compVars>>

NextImporters ==
    \/ \E tree \in ConcTrees : Cardinality(gitSrc.commits) < MaxConcCommits /\ GitCommitTree(tree)
    \/ \E p \in Importers : StartImport(p) \/ CheckCommit(p) \/ LookupParent(p) \/ LookupNode(p) \/ NextNodeId(p) \/ BindNode(p) \/ InsertMapping(p)

SpecImporters == InitImport /\ [][NextImporters]_vars

\* The Add ops an importer has built so far: (path, node) pairs.
Bound(p) ==
    LET rec == imps[p]
        css == IF rec.pc = "done" THEN (IF IsOk(rec.value) THEN rec.value.ok ELSE <<>>) ELSE IF rec.pc = "idle" THEN <<>> ELSE rec.changesets
        cur == IF rec.pc \in {"delta", "next", "bind", "insert"} THEN rec.ops ELSE <<>>
        of(ops) == {<<ops[k].path, ops[k].node_id>> : k \in {k \in DOMAIN ops : ops[k].op_type = "Add"}}
    IN  of(cur) \cup UNION {of(css[c].ops) : c \in DOMAIN css}

\* C22: with two importers on one mapping database, an insert of a git_sha
\* or of a node_id that already has a row (recorded by the other importer)
\* fails and leaves the row as it is, and the two importers never bind one
\* NodeID to two different paths.
C22_ConcurrentImportsFailAtKeys ==
    /\ [][\A p \in Importers :
            /\ (imps[p].pc = "insert" /\ imps'[p] # imps[p] /\ imps[p].oids[imps[p].i] \in DOMAIN bMap)
                   => (imps'[p].pc = "done" /\ ~IsOk(imps'[p].value) /\ bMap' = bMap)
            /\ (imps[p].pc = "bind" /\ imps'[p] # imps[p] /\ imps[p].new_id \in DOMAIN bNodes)
                   => (imps'[p].pc = "done" /\ ~IsOk(imps'[p].value) /\ bNodes' = bNodes)]_vars
    /\ [](\A x, y \in UNION {Bound(p) : p \in Importers} : x[2] = y[2] => x[1] = y[1])


\* The Renamed entries of the last status().
Renames == {i \in 1..Len(rLast.value) : rLast.value[i].status \notin {StatusModified, StatusDeleted, StatusUntracked}}

\* C23: in one status() result each deleted index entry is the source of at
\* most one Renamed event and each untracked file is the target of at most
\* one Renamed event.
C23_RenameSingleSourceSingleTarget ==
    rLast.result = "status" =>
        \A i, j \in Renames :
            i # j => /\ rLast.value[i].status.from # rLast.value[j].status.from
                     /\ rLast.value[i].status.to # rLast.value[j].status.to


\* The path-edit distance between two of the paths a.txt, b.txt, c.txt
\* (one character apart from each other), and the lexicographic order.
EditDistance(p, q) == IF p = q THEN 0 ELSE 1
LexBefore(p, q) == (CHOOSE i \in 1..Len(PathSeq) : PathSeq[i] = p) <= (CHOOSE i \in 1..Len(PathSeq) : PathSeq[i] = q)

\* C24: when the OID of a deleted entry matches several untracked files, the
\* target reported is the one with the smallest path-edit distance to the
\* old path, ties broken by lexicographic path order.
C24_RenameTieBreak ==
    rLast.result = "status" =>
        \A i \in Renames :
            LET from == rLast.value[i].status.from
                to == rLast.value[i].status.to
            IN  \A other \in DOMAIN rTree \ DOMAIN rIndex :
                    ContentOid(other) = rIndex[from].oid =>
                        \/ EditDistance(from, to) < EditDistance(from, other)
                        \/ EditDistance(from, to) = EditDistance(from, other) /\ LexBefore(to, other)


\* The files committed at the head whose content on disk has been changed
\* since (the file is there, the index entry is the committed one).
MutatedSinceCommit ==
    IF rCommits = <<>> THEN {}
    ELSE {path \in DOMAIN ManifestOf(HeadOid) \cap DOMAIN rTree \cap DOMAIN rIndex :
            /\ rIndex[path].oid = ManifestOf(HeadOid)[path].oid
            /\ ContentOid(path) # ManifestOf(HeadOid)[path].oid}

\* C25: after the content of a committed file is changed on disk, status()
\* has a Modified or Untracked entry for the path and no Deleted entry.
C25_MutationIsReported ==
    rLast.result = "status" =>
        \A path \in MutatedSinceCommit :
            /\ Reported(path, StatusModified) \cup Reported(path, StatusUntracked) # {}
            /\ Reported(path, StatusDeleted) = {}


\* The paths the conflicts of the last merge record for a NodeID.
ConflictPathsOf(n) ==
    IF mResult.result # "Conflicts" THEN {}
    ELSE {mResult.conflicts[i].path : i \in {i \in 1..Len(mResult.conflicts) : mResult.conflicts[i].node_id = n}}

\* C26: when ours and theirs hold one NodeID at different paths, merge
\* reports a conflict for that NodeID that records both paths, whatever the
\* content OIDs on both sides.
C26_DivergentRenamesConflict ==
    mCalled =>
        \A p \in DOMAIN mOurs, q \in DOMAIN mTheirs :
            (mOurs[p].node_id = mTheirs[q].node_id /\ p # q) => {p, q} \subseteq ConflictPathsOf(mOurs[p].node_id)


(***************************************************************************)
(* GitImporter on Git histories with a side branch and merge commits.      *)
(***************************************************************************)

MaxMergeCommits == 4
SideRef == <<"refs/heads", "side">>

\* The commits a revwalk from sha visits.
RECURSIVE Ancestors(_)
Ancestors(sha) == {sha} \cup UNION {Ancestors(sha.sha.parents[k]) : k \in DOMAIN sha.sha.parents}

\* The orders Sort::TOPOLOGICAL | Sort::REVERSE allows: every parent before
\* its children.
TopoOrders(sha) ==
    {oids \in Orders(Ancestors(sha)) :
        \A i, j \in DOMAIN oids : (\E k \in DOMAIN oids[i].sha.parents : oids[i].sha.parents[k] = oids[j]) => j < i}

\* git commit on the side branch, which starts at HEAD's commit.
GitCommitSide(tree) ==
    /\ Cardinality(gitSrc.commits) < MaxMergeCommits
    /\ GitHead(gitSrc) # None
    /\ LET parent == IF SideRef \in DOMAIN gitSrc.refs THEN gitSrc.refs[SideRef] ELSE Unwrap(GitHead(gitSrc))
       IN  gitSrc' = git_commit(gitSrc, Some(SideRef), GitCommitObj(tree, <<parent>>, "Side commit", <<"Test User", "test@example.com">>, now))
    /\ rLast' = NoResult
    /\ UNCHANGED <<rObjects, rIndex, rTree, now, rRefs, rHeadFile, rOpen, rCurrent, rCommits, rMoved, gTargets, bMap, bNodes, xp, imps, uuids, mergeVars, storeVars, compVars>>

\* git merge --no-ff side: a commit on HEAD whose parents are HEAD's commit
\* and the side branch's, with the tree the user resolved the merge to.
GitMerge(tree) ==
    /\ Cardinality(gitSrc.commits) < MaxMergeCommits
    /\ GitHead(gitSrc) # None
    /\ SideRef \in DOMAIN gitSrc.refs
    /\ gitSrc.refs[SideRef] \notin Ancestors(Unwrap(GitHead(gitSrc)))
    /\ rTree' = [p \in DOMAIN tree |-> WFile(tree[p].content, now)]
    /\ gitSrc' = git_commit(gitSrc, Some(gitSrc.head),
                            GitCommitObj(tree, <<Unwrap(GitHead(gitSrc)), gitSrc.refs[SideRef]>>, "Merge branch 'side'", <<"Test User", "test@example.com">>, now))
    /\ rLast' = NoResult
    /\ UNCHANGED <<rObjects, rIndex, now, rRefs, rHeadFile, rOpen, rCurrent, rCommits, rMoved, gTargets, bMap, bNodes, xp, imps, uuids, mergeVars, storeVars, compVars>>

\* GitImporter::new(.git, bridge.db) followed by importer.import_all(), the
\* revwalk yielding the commits in one of the orders it may.
ImportAllWalk ==
    /\ GitHead(gitSrc) # None
    /\ \E oids \in TopoOrders(Unwrap(GitHead(gitSrc))) :
        LET r == ImportLoop([db |-> bMap, nodes |-> bNodes, changesets |-> <<>>, imported |-> 0], oids, 1)
        IN  /\ bMap' = r.db
            /\ bNodes' = r.nodes
            /\ rLast' = [result |-> "import_all", value |-> Ok(r.changesets)]
    /\ UNCHANGED <<rObjects, rIndex, rTree, now, rRefs, rHeadFile, rOpen, rCurrent, rCommits, rMoved, gitSrc, gTargets, xp, imps, uuids, mergeVars, storeVars, compVars>>

NextGitMerge ==
    \/ \E tree \in BridgeTrees : Cardinality(gitSrc.commits) < MaxMergeCommits /\ GitCommitTree(tree)
    \/ \E tree \in BridgeTrees : GitCommitSide(tree)
    \/ \E tree \in BridgeTrees : GitMerge(tree)
    \/ ImportAllWalk

SpecGitMerge == InitImport /\ [][NextGitMerge]_vars

\* The (path, op) pairs of the diff of a commit against its first parent.
FirstParentOps(commit) ==
    LET parent_tree == IF commit.parents = <<>> THEN NoFiles ELSE commit.parents[1].sha.tree
        op_type(path) == LET status == DeltaStatus(commit.tree, parent_tree, path)
                         IN  IF status = "Added" THEN "Add" ELSE IF status = "Modified" THEN "Edit" ELSE "Delete"
        deltas == Deltas(commit.tree, parent_tree)
    IN  {<<deltas[k], op_type(deltas[k])>> : k \in DOMAIN deltas}

\* C27: the ops of an imported commit are the diff against its first
\* parent, and the changeset's parents hold the engine OID of every Git
\* parent of the commit, the first and every additional one.
C27_MergeCommitParents ==
    (rLast.result = "import_all" /\ IsOk(rLast.value)) =>
        \A c \in DOMAIN rLast.value.ok :
            LET cs == rLast.value.ok[c]
                commit == cs.oid.w.sha
            IN  /\ {<<cs.ops[k].path, cs.ops[k].op_type>> : k \in DOMAIN cs.ops} = FirstParentOps(commit)
                /\ \A k \in DOMAIN commit.parents : cs.parent = Some(ImportedOid(commit.parents[k]))


(***************************************************************************)
(* GitExporter::build_git_tree on the manifests commit writes for working  *)
(* trees with a directory: files are written, removed, added and           *)
(* committed, and the changesets exported one at a time.                   *)
(***************************************************************************)

TreePaths == {".gitignore", "d", "d/e.txt", "d/f.txt"}

\* The file system can hold a file at path: no file is at its directory,
\* and path is not the directory of a file.
CanCreate(path) ==
    /\ Len(Split(path)) > 1 => Split(path)[1] \notin DOMAIN rTree
    /\ \A q \in DOMAIN rTree : Len(Split(q)) > 1 => Split(q)[1] # path

NextTree ==
    \/ \E path \in TreePaths : CanCreate(path) /\ WriteFile(path, <<0>>)
    \/ \E path \in TreePaths : DeleteFile(path)
    \/ \E path \in TreePaths : Add(path)
    \/ Commit
    \/ \E wind_oid \in {rCommits[i] : i \in DOMAIN rCommits} : ExportChangeset("p1", wind_oid)

SpecTree == InitExport /\ [][NextTree]_vars

\* The blob a Git tree holds at a path given by its parts, None when the
\* tree has nothing or a directory there.
RECURSIVE BlobAt(_, _)
BlobAt(tree, parts) ==
    IF parts[1] \notin DOMAIN tree THEN None
    ELSE IF Len(parts) = 1 THEN (IF tree[parts[1]].mode = TreeMode THEN None ELSE Some(tree[parts[1]]))
    ELSE IF tree[parts[1]].mode = TreeMode THEN BlobAt(tree[parts[1]].tree, Tail(parts))
    ELSE None

\* C28: the Git tree exported for a manifest holds a blob at path p, with
\* the content of the manifest's entry, exactly when the manifest has an
\* entry at p and p does not begin with .git or .wind.
C28_ExportedTreeIsManifest ==
    (rLast.result = "export_changeset" /\ IsOk(rLast.value)) =>
        LET tree == rLast.value.ok.sha.tree
            manifest == ManifestOf(rLast.wind_oid)
        IN  \A p \in Paths :
                /\ BlobAt(tree, Split(p)) # None <=> (p \in DOMAIN manifest /\ ~Filtered(p))
                /\ BlobAt(tree, Split(p)) # None =>
                       OidString(hash_bytes(RawBytes(Unwrap(BlobAt(tree, Split(p))).content))) = manifest[p].oid


\* The commits of the history, root first, that have no row in db.
Unmapped(repo, db) ==
    IF GitHead(repo) = None THEN <<>>
    ELSE SelectSeq(Revwalk(Unwrap(GitHead(repo))), LAMBDA sha : sha \notin DOMAIN db)

\* C29: import_all returns the changesets of the commits that had no row,
\* oldest first, and of no other commit; when every commit has a row it
\* returns an empty list and leaves the SHA mapping and the node-path
\* mapping as they are.
C29_ImportSkipsMappedCommits ==
    [][(rLast'.result = "import_all" /\ IsOk(rLast'.value)) =>
            /\ Len(rLast'.value.ok) = Len(Unmapped(gitSrc, bMap))
            /\ \A k \in DOMAIN rLast'.value.ok : rLast'.value.ok[k].oid = ImportedOid(Unmapped(gitSrc, bMap)[k])
            /\ Unmapped(gitSrc, bMap) = <<>> => (bMap' = bMap /\ bNodes' = bNodes)]_vars

\* import_all has run again on a history that was imported before, and
\* returned nothing.
C29_Witness ==
    /\ rLast.result = "import_all"
    /\ rLast.value = Ok(<<>>)
    /\ Cardinality(DOMAIN bMap) >= 2


\* The changeset has a row in db.
HasRow(db, wind_oid) == \E s \in DOMAIN db : db[s] = wind_oid

C31_ChangesetIdIsItsOid ==
    \A i \in DOMAIN rCommits :
        IsOk(LoadChangeset(rObjects, rCommits[i])) => LoadChangeset(rObjects, rCommits[i]).ok.id = rCommits[i]


(***************************************************************************)
(* Chunker::chunk_bytes.  The cut points are those of the FastCDC iterator *)
(* (fastcdc::ronomon): an input of at most min_size bytes left is given    *)
(* out whole; of a longer one the iterator cuts a chunk of at least        *)
(* min_size and at most max_size bytes, where the rolling hash of the      *)
(* bytes says so.  Every length the hash may choose is a possible result.  *)
(* Sizes are scaled down to a few bytes.                                   *)
(***************************************************************************)

MaxChunkData == 3
ChunkSizes == 1..3
ChunkData == UNION {[1..n -> Bytes] : n \in 0..MaxChunkData}

Slice(data, offset, length) == [k \in 1..length |-> data[offset + k]]

\* The lengths the iterator may give for the next entry with `remaining` bytes left.
CutLengths(min_size, max_size, remaining) ==
    IF remaining <= min_size THEN {remaining}
    ELSE min_size..(IF remaining < max_size THEN remaining ELSE max_size)

\* struct Chunk, as the loop of chunk_bytes fills it.
Chunk(data, offset, length) == [data |-> Slice(data, offset, length), oid |-> hash_bytes(Slice(data, offset, length)), offset |-> offset, length |-> length]

\* The loop of chunk_bytes over the iterator's entries, from `offset` on:
\* every list of chunks it may push.
RECURSIVE ChunkLoop(_, _, _, _)
ChunkLoop(data, offset, min_size, max_size) ==
    IF offset = Len(data) THEN {<<>>}
    ELSE UNION {{<<Chunk(data, offset, n)>> \o rest : rest \in ChunkLoop(data, offset + n, min_size, max_size)} :
                    n \in CutLengths(min_size, max_size, Len(data) - offset)}

\* Chunker::chunk_bytes: the lists of chunks a call may return.
chunk_bytes(min_size, avg_size, max_size, data) ==
    IF data = <<>> THEN {<<>>} ELSE ChunkLoop(data, 0, min_size, max_size)

\* Chunker::new(min, avg, max).chunk_bytes(data)
ChunkBytes(min_size, avg_size, max_size, data) ==
    /\ min_size <= avg_size
    /\ avg_size <= max_size
    /\ \E chunks \in chunk_bytes(min_size, avg_size, max_size, data) :
        ck' = [called |-> TRUE, min_size |-> min_size, avg_size |-> avg_size, max_size |-> max_size, data |-> data, chunks |-> chunks]
    /\ UNCHANGED <<pk, hd, sc, mergeVars, storeVars, repoVars, bridgeVars, uuids>>

NextChunk ==
    \E min_size, avg_size, max_size \in ChunkSizes, data \in ChunkData : ChunkBytes(min_size, avg_size, max_size, data)

SpecChunk == InitStore /\ [][NextChunk]_vars

\* C32: every chunk chunk_bytes returns for a non-empty input has a length
\* of at least min_size and at most max_size, the last chunk and the only
\* chunk of a short input included.
C32_ChunkLengthsWithinBounds ==
    (ck.called /\ ck.data # <<>>) =>
        \A i \in DOMAIN ck.chunks : ck.min_size <= ck.chunks[i].length /\ ck.chunks[i].length <= ck.max_size


\* The stat of the file at a tracked path equals the index entry's.
StatEqual(path) == rIndex[path].mtime = rTree[path].mtime /\ rIndex[path].size = Len(rTree[path].content)

\* The entries of the last status() at the given path.
ReportedAt(path) == {i \in 1..Len(rLast.value) : rLast.value[i].path = path}

BranchNames == {"main", "dev"}

\* UnifiedRepository::init(path) on the directory, whatever it holds: the
\* default .windignore unless an ignore file is there, a new Branch "main"
\* with a fresh id and no head written under refs/heads/<id>, HEAD set to
\* that id, and the handle returned.
InitAgain ==
    /\ uuids < MaxUuid
    /\ rTree' = IF ".gitignore" \notin DOMAIN rTree /\ ".windignore" \notin DOMAIN rTree
                THEN fs_write(rTree, ".windignore", WFile(default_content, now))
                ELSE rTree
    /\ rRefs' = fs_write(rRefs, Uuid(uuids + 1), Branch(Uuid(uuids + 1), "main", EmptyString))
    /\ rHeadFile' = Some(Uuid(uuids + 1))
    /\ rCurrent' = Some(Uuid(uuids + 1))
    /\ rOpen' = TRUE
    /\ uuids' = uuids + 1
    /\ rLast' = [result |-> "init", value |-> Ok(Uuid(uuids + 1))]
    /\ UNCHANGED <<rObjects, rIndex, now, rCommits, rMoved, mergeVars, storeVars, bridgeVars, compVars>>

\* UnifiedRepository::open(path): a handle whose current_branch is what
\* .wind/HEAD holds.
Open ==
    /\ rCurrent' = rHeadFile
    /\ rOpen' = TRUE
    /\ rLast' = [result |-> "open", value |-> Ok(rHeadFile)]
    /\ UNCHANGED <<rObjects, rIndex, rTree, now, rRefs, rHeadFile, rCommits, rMoved, uuids, mergeVars, storeVars, bridgeVars, compVars>>

\* UnifiedRepository::branches: the Branch of every file of refs/heads.
branches(refs) == {refs[id] : id \in DOMAIN refs}

\* repo.checkout(target): find_branch_by_name takes the first branch of that
\* name in the order read_dir lists refs/heads, which is any of them.
Checkout(target) ==
    /\ rOpen
    /\ IF \E b \in branches(rRefs) : b.name = target
       THEN \E b \in branches(rRefs) :
                /\ b.name = target
                /\ rCurrent' = Some(b.id)
                /\ rHeadFile' = Some(b.id)
                /\ rLast' = [result |-> "checkout", target |-> target, value |-> Ok(b.id)]
       ELSE /\ rLast' = [result |-> "checkout", target |-> target, value |-> Err("Branch not found")]
            /\ UNCHANGED <<rCurrent, rHeadFile>>
    /\ UNCHANGED <<rObjects, rIndex, rTree, now, rRefs, rOpen, rCommits, rMoved, uuids, mergeVars, storeVars, bridgeVars, compVars>>

NextLife ==
    \/ \E content \in RepoContents : WriteFile(BridgePath, content)
    \/ Add(BridgePath)
    \/ Commit
    \/ InitAgain
    \/ Open
    \/ \E target \in BranchNames : Checkout(target)
    \/ \E limit \in 0..(MaxCommits + 1) : Log(limit)

SpecLife == InitRepo /\ [][NextLife]_vars


\* The OIDs of the changesets the store `dir` holds.
ChangesetOids(dir) ==
    {OidString([blake3 |-> f.objects]) : f \in {g \in DOMAIN dir : "zstd" \in DOMAIN dir[g] /\ "changeset" \in DOMAIN dir[g].zstd}}

\* Following parents from oid never comes back to a changeset of `seen`.
RECURSIVE NoRevisit(_, _, _)
NoRevisit(dir, oid, seen) ==
    /\ oid \notin seen
    /\ IsOk(LoadChangeset(dir, oid)) =>
        \A k \in DOMAIN LoadChangeset(dir, oid).ok.parents :
            NoRevisit(dir, LoadChangeset(dir, oid).ok.parents[k], seen \cup {oid})

\* C34: the changeset graph is acyclic: a changeset is written only when
\* the changesets its parents name are in the store, following parents from
\* a branch head never revisits a changeset, and log walks from the head to
\* a root within as many steps as there are changesets.
C34_ChangesetGraphAcyclic ==
    /\ [](\A oid \in ChangesetOids(rObjects) :
            \A k \in DOMAIN LoadChangeset(rObjects, oid).ok.parents :
                LoadChangeset(rObjects, oid).ok.parents[k] \in ChangesetOids(rObjects))
    /\ [][\A oid \in ChangesetOids(rObjects') \ ChangesetOids(rObjects) :
            \A k \in DOMAIN LoadChangeset(rObjects', oid).ok.parents :
                LoadChangeset(rObjects', oid).ok.parents[k] \in ChangesetOids(rObjects)]_vars
    /\ [](\A b \in branches(rRefs) : b.head # EmptyString => NoRevisit(rObjects, b.head, {}))
    /\ [](rCurrent # None =>
            LET log == LogOn(rObjects, rRefs, rCurrent, Cardinality(ChangesetOids(rObjects)) + 1)
            IN  IsOk(log) /\ Len(log.ok) <= Cardinality(ChangesetOids(rObjects)))

\* Two commits have been made, the second on top of the first, and the
\* repository was initialised again or checked out in between or after.
C34_Witness ==
    /\ Len(rCommits) = 2
    /\ LoadChangeset(rObjects, rCommits[2]).ok.parents = <<rCommits[1]>>
    /\ rLast.result \in {"init", "checkout"}
    /\ IsOk(rLast.value)


(***************************************************************************)
(* PackFile::write, step by step: fs::write creates (or truncates) a file  *)
(* and then writes its bytes.  A process may stop between any two steps,   *)
(* and two processes may write into one pack directory.                    *)
(***************************************************************************)

PackData == {RawBytes(<<0>>), RawBytes(<<1>>)}

\* pack_dir/pack-<hex>.pack and pack_dir/pack-<hex>.idx
pack_path(pack_id) == [pack |-> pack_id.blake3]
index_path(pack_id) == [idx |-> pack_id.blake3]

\* A file File::create has just made: no bytes yet.
CreatedFile == [created |-> TRUE]

\* PackFile::add_object on a new PackFile: the one PackedObject.
add_object(oid, data) == <<[oid |-> oid, offset |-> 0, size |-> Len(data.bytes)]>>

\* The PackIndex write builds from self.objects.
PackIndex(objects, path) ==
    [entries |-> [o \in {objects[i].oid : i \in DOMAIN objects} |->
                    LET i == CHOOSE k \in DOMAIN objects : objects[k].oid = o /\ \A l \in DOMAIN objects : objects[l].oid = o => l <= k
                    IN  [offset |-> objects[i].offset, size |-> objects[i].size]],
     pack_path |-> path]

PackStep(w, pc, dir) ==
    /\ pk' = [pk EXCEPT !.dir = dir, !.procs[w].pc = pc]
    /\ UNCHANGED <<ck, hd, sc, mergeVars, storeVars, repoVars, bridgeVars, uuids>>

\* pack.write(pack_dir, data) is called: create_dir_all, the hash and the
\* compression touch no file.
PackWriteCall(w, data) ==
    /\ pk.procs[w].pc = "idle"
    /\ pk' = [pk EXCEPT !.procs[w] = [pc |-> "create_pack", data |-> data, objects |-> add_object(hash_bytes(data), data)]]
    /\ UNCHANGED <<ck, hd, sc, mergeVars, storeVars, repoVars, bridgeVars, uuids>>

\* A write that makes the index file first.
PackCreate_IndexFirst(w) ==
    /\ pk.procs[w].pc = "create_pack"
    /\ PackStep(w, "write_pack", fs_write(pk.dir, index_path(hash_bytes(pk.procs[w].data)), CreatedFile))

\* fs::write(&pack_path, compressed): the file is created or truncated ...
PackCreate(w) ==
    /\ pk.procs[w].pc = "create_pack"
    /\ PackStep(w, "write_pack", fs_write(pk.dir, pack_path(hash_bytes(pk.procs[w].data)), CreatedFile))

\* ... and its bytes written.
PackWriteAll(w) ==
    /\ pk.procs[w].pc = "write_pack"
    /\ PackStep(w, "create_idx", fs_write(pk.dir, pack_path(hash_bytes(pk.procs[w].data)), zstd_encode(pk.procs[w].data)))

\* fs::write(&index_path, index_data): the file is created or truncated ...
IdxCreate(w) ==
    /\ pk.procs[w].pc = "create_idx"
    /\ PackStep(w, "write_idx", fs_write(pk.dir, index_path(hash_bytes(pk.procs[w].data)), CreatedFile))

\* ... and its bytes written; write returns.
IdxWriteAll(w) ==
    /\ pk.procs[w].pc = "write_idx"
    /\ PackStep(w, "done", fs_write(pk.dir, index_path(hash_bytes(pk.procs[w].data)),
                                    PackIndex(pk.procs[w].objects, pack_path(hash_bytes(pk.procs[w].data)))))

\* The process is stopped, or the fs::write it is in fails, between two steps.
PackStop(w) ==
    /\ pk.procs[w].pc \in {"create_pack", "write_pack", "create_idx", "write_idx"}
    /\ PackStep(w, "stopped", pk.dir)

NextPack ==
    \/ \E w \in PackWriters, data \in PackData : PackWriteCall(w, data)
    \/ \E w \in PackWriters : PackCreate(w)
    \/ \E w \in PackWriters : PackWriteAll(w)
    \/ \E w \in PackWriters : IdxCreate(w)
    \/ \E w \in PackWriters : IdxWriteAll(w)
    \/ \E w \in PackWriters : PackStop(w)

SpecPack == InitStore /\ [][NextPack]_vars

\* C35: the index file of a pack is made only when the pack file is there,
\* and in every state, stopped writers included, an index file
\* pack-<h>.idx is in the directory only if pack-<h>.pack is.
C35_IndexOnlyWithPack ==
    /\ [](\A data \in PackData : index_path(hash_bytes(data)) \in DOMAIN pk.dir => pack_path(hash_bytes(data)) \in DOMAIN pk.dir)
    /\ [][\A data \in PackData :
            (index_path(hash_bytes(data)) \in DOMAIN pk'.dir /\ index_path(hash_bytes(data)) \notin DOMAIN pk.dir)
                => pack_path(hash_bytes(data)) \in DOMAIN pk.dir]_vars

\* One write was stopped after its pack file and before its index file,
\* and another write has left both its files.
C35_Witness ==
    \E v, w \in PackWriters :
        /\ pk.procs[v].pc = "stopped"
        /\ pack_path(hash_bytes(pk.procs[v].data)) \in DOMAIN pk.dir
        /\ index_path(hash_bytes(pk.procs[v].data)) \notin DOMAIN pk.dir
        /\ pk.procs[w].pc = "done"
        /\ index_path(hash_bytes(pk.procs[w].data)) \in DOMAIN pk.dir


\* C36: on every handle, from init, open or import_git, when commit returns
\* OID x the head of the handle's current branch is x and log(1) returns
\* the changeset stored at x.
C36_CommitMovesCurrentBranch ==
    (rLast.result = "commit" /\ IsOk(rLast.value)) =>
        /\ rCurrent # None
        /\ IsOk(read_branch(rRefs, Unwrap(rCurrent)))
        /\ read_branch(rRefs, Unwrap(rCurrent)).ok.head = rLast.value.ok
        /\ LogOn(rObjects, rRefs, rCurrent, 1) = Ok(<<LoadChangeset(rObjects, rLast.value.ok).ok>>)


(***************************************************************************)
(* Two handles opened on one repository directory, each in its own         *)
(* process, calling commit: the file-system calls of the two commits       *)
(* interleave.  Both handles have the branch of HEAD as current branch.    *)
(***************************************************************************)

HandleStep(h, rec) ==
    /\ hd' = [hd EXCEPT ![h] = rec]
    /\ UNCHANGED <<ck, pk, sc>>

\* commit, first part: the index is listed, the manifest built and written.
CommitManifest(h) ==
    /\ hd[h].pc = "idle"
    /\ Len(rCommits) < MaxCommits
    /\ LET w == StoreWriteTo(rObjects, ManifestJson(build_current_manifest(rIndex)))
       IN  /\ rObjects' = w.dir
           /\ HandleStep(h, [pc |-> "parents", changes |-> CommitChanges(rIndex), manifest_oid |-> w.oid])
    /\ UNCHANGED <<rIndex, rTree, now, rRefs, rHeadFile, rOpen, rCurrent, rCommits, rMoved, rLast, uuids, mergeVars, storeVars, bridgeVars>>

\* commit, second part: the branch is read for the parents and the
\* changeset made.
CommitParents(h) ==
    /\ hd[h].pc = "parents"
    /\ uuids < MaxUuid
    /\ LET branch == read_branch(rRefs, Unwrap(rCurrent))
           parents == IF branch.ok.head = EmptyString THEN <<>> ELSE <<branch.ok.head>>
       IN  HandleStep(h, [pc |-> "write", changeset |-> ChangesetNew(Uuid(uuids + 1), parents, hd[h].changes, "message", "user", now, hd[h].manifest_oid)])
    /\ uuids' = uuids + 1
    /\ UNCHANGED <<rObjects, rIndex, rTree, now, rRefs, rHeadFile, rOpen, rCurrent, rCommits, rMoved, rLast, mergeVars, storeVars, bridgeVars>>

\* commit, third part: the changeset is written to the store.
CommitWrite(h) ==
    /\ hd[h].pc = "write"
    /\ LET w == StoreWriteTo(rObjects, ChangesetJson(hd[h].changeset))
       IN  /\ rObjects' = w.dir
           /\ HandleStep(h, [pc |-> "head", changeset_oid |-> w.oid])
    /\ UNCHANGED <<rIndex, rTree, now, rRefs, rHeadFile, rOpen, rCurrent, rCommits, rMoved, rLast, uuids, mergeVars, storeVars, bridgeVars>>

\* commit, last part: the branch is read again, its head set and the branch
\* written; commit returns the OID.
CommitHead(h) ==
    /\ hd[h].pc = "head"
    /\ rRefs' = fs_write(rRefs, Unwrap(rCurrent), [read_branch(rRefs, Unwrap(rCurrent)).ok EXCEPT !.head = hd[h].changeset_oid])
    /\ rCommits' = Append(rCommits, hd[h].changeset_oid)
    /\ rLast' = [result |-> "commit", value |-> Ok(hd[h].changeset_oid)]
    /\ HandleStep(h, [pc |-> "idle"])
    /\ UNCHANGED <<rObjects, rIndex, rTree, now, rHeadFile, rOpen, rCurrent, rMoved, uuids, mergeVars, storeVars, bridgeVars>>

NextHandles ==
    \/ \E content \in RepoContents : WriteFile(BridgePath, content)
    \/ Add(BridgePath)
    \/ \E h \in Handles : CommitManifest(h)
    \/ \E h \in Handles : CommitParents(h)
    \/ \E h \in Handles : CommitWrite(h)
    \/ \E h \in Handles : CommitHead(h)

SpecHandles == InitRepo /\ [][NextHandles]_vars

\* The changesets reached from oid by following parents.
RECURSIVE ReachedFrom(_, _)
ReachedFrom(dir, oid) ==
    IF oid = EmptyString \/ ~IsOk(LoadChangeset(dir, oid)) THEN {}
    ELSE {oid} \cup UNION {ReachedFrom(dir, LoadChangeset(dir, oid).ok.parents[k]) : k \in DOMAIN LoadChangeset(dir, oid).ok.parents}

\* C37: with two handles committing at once, every commit that has
\* returned stays reachable from the branch head by following parents.
C37_ConcurrentCommitsAllReachable ==
    \A i \in DOMAIN rCommits : rCommits[i] \in ReachedFrom(rObjects, read_branch(rRefs, Unwrap(rCurrent)).ok.head)


(***************************************************************************)
(* StatusCache (wind-core/src/cache.rs).  Every method takes the mutex, so *)
(* calls are atomic; time passes between calls.                            *)
(***************************************************************************)

CachePaths == {"/repo", "/other"}
CacheStatuses == {"clean", "modified"}
MaxClock == 3
Ttls == {1, 2}

\* StatusCache::get: the cached status when it is younger than ttl and the
\* cache is not dirty.
cache_get(c, path) ==
    IF path \in DOMAIN c.cache /\ c.clock - c.cache[path].timestamp < c.ttl /\ ~c.dirty
    THEN Some(c.cache[path].status)
    ELSE None

CacheGet(path) ==
    /\ sc' = [sc EXCEPT !.last = [result |-> "get", path |-> path, value |-> cache_get(sc, path)]]
    /\ UNCHANGED <<ck, pk, hd, mergeVars, storeVars, repoVars, bridgeVars, uuids>>

\* StatusCache::set: the entry is inserted with the time of the call and
\* dirty is cleared.
CacheSet(path, status) ==
    /\ sc' = [sc EXCEPT !.cache = fs_write(@, path, [status |-> status, timestamp |-> sc.clock]),
                        !.dirty = FALSE,
                        !.set_since = @ \cup {path},
                        !.last = [result |-> "set", path |-> path]]
    /\ UNCHANGED <<ck, pk, hd, mergeVars, storeVars, repoVars, bridgeVars, uuids>>

\* StatusCache::invalidate
CacheInvalidate ==
    /\ sc' = [sc EXCEPT !.dirty = TRUE, !.invalidated = TRUE, !.set_since = {}, !.last = [result |-> "invalidate"]]
    /\ UNCHANGED <<ck, pk, hd, mergeVars, storeVars, repoVars, bridgeVars, uuids>>

\* StatusCache::clear
CacheClear ==
    /\ sc' = [sc EXCEPT !.cache = NoFiles, !.dirty = FALSE, !.last = [result |-> "clear"]]
    /\ UNCHANGED <<ck, pk, hd, mergeVars, storeVars, repoVars, bridgeVars, uuids>>

\* StatusCache::set_ttl
CacheSetTtl(ttl) ==
    /\ sc' = [sc EXCEPT !.ttl = ttl, !.last = [result |-> "set_ttl"]]
    /\ UNCHANGED <<ck, pk, hd, mergeVars, storeVars, repoVars, bridgeVars, uuids>>

\* Time passes.
CacheTick ==
    /\ sc.clock < MaxClock
    /\ sc' = [sc EXCEPT !.clock = @ + 1]
    /\ UNCHANGED <<ck, pk, hd, mergeVars, storeVars, repoVars, bridgeVars, uuids>>

NextCache ==
    \/ \E path \in CachePaths : CacheGet(path)
    \/ \E path \in CachePaths, status \in CacheStatuses : CacheSet(path, status)
    \/ CacheInvalidate
    \/ CacheClear
    \/ \E ttl \in Ttls : CacheSetTtl(ttl)
    \/ CacheTick

SpecCache == InitStore /\ [][NextCache]_vars

\* C38: once invalidate() has been called, get(p) is None for every path p
\* that set(p, .) has not been called for since; a set for another path
\* does not bring back an entry cached before the invalidation.
C38_InvalidateHidesUntilSet ==
    sc.invalidated => \A path \in CachePaths \ sc.set_since : cache_get(sc, path) = None


\* C39: a merge that returns Conflicts returns them as an Ok value and
\* changes nothing: the branch files, HEAD, the handle's current branch, the
\* path index and the objects of the store are after the call what they
\* were before it.
C39_ConflictingMergeChangesNothing ==
    [][(rLast'.result = "merge" /\ IsOk(rLast'.value) /\ rLast'.value.ok.result.result = "Conflicts") =>
            /\ rRefs' = rRefs
            /\ rHeadFile' = rHeadFile
            /\ rCurrent' = rCurrent
            /\ rIndex' = rIndex
            /\ rObjects' = rObjects]_vars

\* merge has returned Ok(Conflicts) with at least one conflict, on a
\* repository with two commits.
C39_Witness ==
    /\ rLast.result = "merge"
    /\ IsOk(rLast.value)
    /\ rLast.value.ok.result.result = "Conflicts"
    /\ Len(rLast.value.ok.result.conflicts) >= 1
    /\ Len(rCommits) = 2


\* C40: in every state reached by init (also on a directory that already
\* holds a repository), open, commit and checkout, branches() holds exactly
\* one branch named "main", no two branches have the same name, and every
\* changeset committed so far is reached from the head of the branch HEAD
\* names.
C40_OneMainBranchKeepsHistory ==
    /\ Cardinality({id \in DOMAIN rRefs : rRefs[id].name = "main"}) = 1
    /\ \A id1, id2 \in DOMAIN rRefs : rRefs[id1].name = rRefs[id2].name => id1 = id2
    /\ rHeadFile # None
    /\ IsOk(read_branch(rRefs, Unwrap(rHeadFile)))
    /\ \A i \in DOMAIN rCommits : rCommits[i] \in ReachedFrom(rObjects, read_branch(rRefs, Unwrap(rHeadFile)).ok.head)

=============================================================================
